---- MODULE Spec2Model ----
(***************************************************************************)
(* A model of power-hour-builder: the clip-selection pipeline of           *)
(* power_hour/cli.py (source resolution, genre filtering, selection,       *)
(* timing resolution) and the commands that drive it.                      *)
(***************************************************************************)
EXTENDS Integers, Sequences, FiniteSets, TLC

\* Python's None where an Optional[int] or Optional[float] is expected: a
\* value that is no number of the model (the numbers modelled are >= 0).
None == 0 - 1

Min(a, b) == IF a <= b THEN a ELSE b
Max(a, b) == IF a >= b THEN a ELSE b

Range(s) == {s[i] : i \in 1..Len(s)}

\* TRUE iff no value occurs at two positions of s.
NoDup(s) == \A i, j \in 1..Len(s) : s[i] = s[j] => i = j

(***************************************************************************)
(* Bounds of the model.                                                    *)
(***************************************************************************)
\* Longest candidate list handed to the selection functions.
MaxItems == 4
\* Largest --limit (the CLI enforces limit >= 1).
MaxLimit == 5
\* Seeds are 0..MaxSeed, or None.
MaxSeed == 3
\* Values the operating system's entropy can take when seed is None.
MaxEntropy == 2
\* Longest string handed to _parse_timecode, TcSamples aside.
MaxTcLen == 4
\* Most rows of a genre mapping CSV.
MaxMapRows == 2
\* Most files of a directory tree.
MaxDirFiles == 3
\* Most lines of a playlist or --urls-file.
MaxLines == 2
\* Most rows of a --urls-csv file.
MaxCsvRows == 2
\* Largest --limit of a command run.
MaxCmdLimit == 3
\* Longest chorus or start cell of the one-row CSV runs.
MaxCellLen == 2
\* Most input files handed to build_power_hour.
MaxClips == 3
MaxClipSeconds == 3
MaxCrossfade == 3
MaxDuration == 6
MaxStartOffset == 6
MaxTrimSeconds == 4
MaxPlaylistRows == 3
\* The longest reference given to _extract_video_id, in pieces.
MaxRefLen == 3
\* Most patterns handed to _scan_dir alone.
MaxPatterns == 2
\* Most items handed to _filter_items_by_genre alone.
MaxFilterItems == 3
\* Most items handed to _write_youtube_html alone.
MaxHtmlItems == 2
\* Most videos of a generated page.
MaxVideos == 2
\* The player's times are in ticks of half a second. The longest clip, the
\* largest start offset, a title delay shorter than every clip, and the
\* length of a video shorter than every clip, in ticks.
MaxClipTicks == 10
MaxStartTicks == 2
SomeDelayTicks == 1
ShortTicks == 4

VARIABLES
    selIn,      \* the arguments of the selection calls: [n, limit, shuffle, seed]
    selOuts,    \* what the selection functions have returned for selIn
    tcIn,       \* the string handed to _parse_timecode
    tcOut,      \* what _parse_timecode did with tcIn
    genIn,      \* a genre mapping CSV and a genre term
    genOut,     \* the mapping loaded from genIn and the files it keeps
    run,        \* the command that ran: its arguments and what it did
    bld,        \* a call of build_power_hour: its position and its handles
    call,       \* a call of one function alone: [fn, args, out]
    ply         \* the generated HTML player: its script's variables, the
                \* YouTube player it drives and the page's overlay

selVars == <<selIn, selOuts>>
tcVars == <<tcIn, tcOut>>
genVars == <<genIn, genOut>>

vars == <<selVars, tcVars, genVars, run, bld, call, ply>>

\* What the actions of one part of the model leave alone.
notSel == <<tcVars, genVars, run, bld, call, ply>>
notTc == <<selVars, genVars, run, bld, call, ply>>
notGen == <<selVars, tcVars, run, bld, call, ply>>
notCmd == <<selVars, tcVars, genVars, bld, call, ply>>
notBld == <<selVars, tcVars, genVars, run, call, ply>>
notCall == <<selVars, tcVars, genVars, run, bld, ply>>
notPly == <<selVars, tcVars, genVars, run, bld, call>>

\* No function has been called alone.
NoCall == [fn |-> "none", args |-> <<>>, out |-> <<>>]
CallIdle == call = NoCall
\* No page has been generated and opened.
NoPage == [phase |-> "no page"]
PlyIdle == ply = NoPage
\* The value of call.out before the call.
Pending == [kind |-> "pending"]

(***************************************************************************)
(* Selection: _pick, _pick_dict, _pick_tuples (cli.py 82-89, 742-759).     *)
(* A Python list holds objects; the candidates are the objects 1..n in     *)
(* list order, so a list position and the object at it are the same thing. *)
(***************************************************************************)
Ids(n) == [i \in 1..n |-> i]

\* random.Random(seed): the generator's state after construction. With seed
\* None the generator is seeded from operating-system entropy.
BadRandom(seed, entropy) == entropy
Random(seed, entropy) == IF seed = None THEN entropy ELSE seed

\* One step of the generator (a stand-in linear congruential generator for
\* the Mersenne Twister: a deterministic function of its state).
RngStep(s) == (11 * s + 5) % 97

\* Random._randbelow(n) on the generator in state s (after the step).
_randbelow(s, n) == s % n

Swap(x, i, j) == [x EXCEPT ![i] = x[j], ![j] = x[i]]

\* A shuffle whose exchange overwrites x[i] and loses it.
RECURSIVE BadShuffle(_, _, _)
BadShuffle(x, i, s) ==
    IF i < 2 THEN x
    ELSE LET s1 == RngStep(s)
             j == _randbelow(s1, i) + 1
         IN  BadShuffle([x EXCEPT ![i] = x[j]], i - 1, s1)

\* Random.shuffle(x): for i in reversed(range(1, len(x))):
\*     j = randbelow(i + 1); x[i], x[j] = x[j], x[i]
\* (positions are 1-based here), from position i down, generator state s.
RECURSIVE shuffle(_, _, _)
shuffle(x, i, s) ==
    IF i < 2 THEN x
    ELSE LET s1 == RngStep(s)
             j == _randbelow(s1, i) + 1
         IN  shuffle(Swap(x, i, j), i - 1, s1)

\* items = list(files); if shuffle: random.Random(seed).shuffle(items)
Shuffled(files, doShuffle, seed, entropy) ==
    IF doShuffle THEN shuffle(files, Len(files), Random(seed, entropy))
    ELSE files

\* A truncation that is off by one.
BadTruncate(items, limit) ==
    IF limit > 0 THEN SubSeq(items, 1, Min(limit + 1, Len(items))) ELSE items
\* if limit > 0: items = items[:limit]
Truncate(items, limit) ==
    IF limit > 0 THEN SubSeq(items, 1, Min(limit, Len(items))) ELSE items

\* A selection that takes the tail of the list when it does not shuffle.
BadPick(files, limit, doShuffle, seed, entropy) ==
    IF doShuffle THEN Truncate(Shuffled(files, doShuffle, seed, entropy), limit)
    ELSE SubSeq(files, Len(files) - Min(limit, Len(files)) + 1, Len(files))
_pick(files, limit, doShuffle, seed, entropy) ==
    Truncate(Shuffled(files, doShuffle, seed, entropy), limit)

_pick_dict(items, limit, doShuffle, seed, entropy) ==
    Truncate(Shuffled(items, doShuffle, seed, entropy), limit)

_pick_tuples(items, limit, doShuffle, seed, entropy) ==
    Truncate(Shuffled(items, doShuffle, seed, entropy), limit)

(***************************************************************************)
(* Timestamps: _parse_timecode (cli.py 241-263).                           *)
(* A string is a sequence of characters. To let a string hold a number     *)
(* too large for a float, one element may be ZeroRun, which stands for     *)
(* ZeroRunLen consecutive "0" characters.                                  *)
(***************************************************************************)
\* The length of the run of zeros ZeroRun stands for.
ZeroRunLen == 400
ZeroRun == "0{run}"

DigitChars == {"0", "1", "3", "9"}
DigitVal(c) == CASE c = "0" -> 0 [] c = "1" -> 1 [] c = "3" -> 3 [] c = "9" -> 9

\* The characters strings are made of.
TcChars == DigitChars \cup {":", "a", " ", "-", ZeroRun}

\* The number of characters an element stands for.
CharLen(c) == IF c = ZeroRun THEN ZeroRunLen ELSE 1

\* str.strip(): leading and trailing whitespace removed.
RECURSIVE LStrip(_)
LStrip(s) == IF s # <<>> /\ Head(s) = " " THEN LStrip(Tail(s)) ELSE s
RECURSIVE RStrip(_)
RStrip(s) ==
    IF s # <<>> /\ s[Len(s)] = " " THEN RStrip(SubSeq(s, 1, Len(s) - 1)) ELSE s
strip(s) == RStrip(LStrip(s))

\* str.split(sep): the fields between the separators; never empty.
RECURSIVE split(_, _)
split(s, sep) ==
    IF \E i \in 1..Len(s) : s[i] = sep
    THEN LET i == CHOOSE k \in 1..Len(s) :
                      s[k] = sep /\ \A m \in 1..(k - 1) : s[m] # sep
         IN  <<SubSeq(s, 1, i - 1)>> \o split(SubSeq(s, i + 1, Len(s)), sep)
    ELSE <<s>>

\* A non-empty string of decimal digits.
IsDigits(s) == s # <<>> /\ \A i \in 1..Len(s) : s[i] \in DigitChars \cup {ZeroRun}

RECURSIVE StripZeros(_)
StripZeros(s) ==
    IF s # <<>> /\ Head(s) \in {"0", ZeroRun} THEN StripZeros(Tail(s)) ELSE s

RECURSIVE NumChars(_)
NumChars(s) == IF s = <<>> THEN 0 ELSE CharLen(Head(s)) + NumChars(Tail(s))

RECURSIVE Decimal(_)
Decimal(s) ==
    IF s = <<>> THEN 0
    ELSE 10 * Decimal(SubSeq(s, 1, Len(s) - 1)) + DigitVal(s[Len(s)])

\* A Python int: exact (v) while it has at most 308 significant digits
\* (every such int is below the largest float, about 1.8e308), and huge
\* otherwise, when v is its sign. The strings of the model give ints of a
\* few digits or of more than ZeroRunLen digits, nothing in between.
IntOfDigits(s) ==
    LET t == StripZeros(s)
    IN  IF NumChars(t) > 308 THEN [huge |-> TRUE, v |-> 1]
        ELSE [huge |-> FALSE, v |-> Decimal(t)]

IntNeg(a) == [huge |-> a.huge, v |-> 0 - a.v]

\* a * k for k > 0.
IntMul(a, k) == IF a.huge THEN a ELSE [huge |-> FALSE, v |-> a.v * k]

\* a + b. A huge int absorbs one of a few digits. Two huge ints of opposite
\* signs (their sum depends on the digits) take a string of two zero runs, two
\* other digits, a sign and a colon, which is longer than the model's strings.
IntAdd(a, b) ==
    IF a.huge THEN a
    ELSE IF b.huge THEN b
    ELSE [huge |-> FALSE, v |-> a.v + b.v]

\* What a call gives: a float, float infinity (inf or -inf), None, or a
\* raised exception.
Float(v) == [kind |-> "float", val |-> v]
Inf == [kind |-> "inf", val |-> 0]
NegInf == [kind |-> "-inf", val |-> 0]
NoneVal == [kind |-> "None", val |-> 0]
Raised(exc) == [kind |-> exc, val |-> 0]

\* An optional "-" and then digits: what int() and float() take of the
\* strings of the model (once stripped).
Negative(s) == s # <<>> /\ Head(s) = "-"
Unsigned(s) == IF Negative(s) THEN Tail(s) ELSE s
IsInteger(s) == IsDigits(Unsigned(s))
IntOfString(s) ==
    IF Negative(s) THEN IntNeg(IntOfDigits(Tail(s))) ELSE IntOfDigits(s)

\* float(s) of a stripped string: the number's value, inf or -inf when it is
\* beyond the largest float; ValueError for anything else these characters
\* spell.
float_str(s) ==
    IF IsInteger(s)
    THEN LET n == IntOfString(s)
         IN  IF n.huge THEN (IF n.v > 0 THEN Inf ELSE NegInf) ELSE Float(n.v)
    ELSE Raised("ValueError")

\* int(p): surrounding whitespace is ignored; ValueError unless an integer.
IntOk(p) == IsInteger(strip(p))
int_str(p) == IntOfString(strip(p))

\* A conversion that clamps instead of raising.
BadFloatOfInt(n) ==
    IF n.huge THEN (IF n.v > 0 THEN Inf ELSE NegInf) ELSE Float(n.v)
\* float(n) of an int: OverflowError ("int too large to convert to float")
\* when n is beyond the largest float.
float_int(n) == IF n.huge THEN Raised("OverflowError") ELSE Float(n.v)

\* A parser that reads M:S as M + S.
BadParseTimecode(val) ==
    LET s == strip(val)
        parts == split(s, ":")
    IN  IF Len(parts) = 2 /\ \A i \in 1..2 : IntOk(parts[i])
        THEN float_int(IntAdd(int_str(parts[1]), int_str(parts[2])))
        ELSE NoneVal
_parse_timecode(val) ==
    LET s == strip(val)
        parts == split(s, ":")
    IN  IF s = <<>> THEN NoneVal
        ELSE IF float_str(s).kind # "ValueError" THEN float_str(s)
        ELSE IF \E i \in 1..Len(parts) : ~IntOk(parts[i]) THEN NoneVal
        ELSE IF Len(parts) = 2
             THEN float_int(IntAdd(IntMul(int_str(parts[1]), 60),
                                   int_str(parts[2])))
        ELSE IF Len(parts) = 3
             THEN float_int(IntAdd(IntAdd(IntMul(int_str(parts[1]), 3600),
                                          IntMul(int_str(parts[2]), 60)),
                                   int_str(parts[3])))
        ELSE NoneVal

(***************************************************************************)
(* Strings of names, tags and references: sequences of characters, as for  *)
(* timestamps. str.lower(), the test "g in s" and str.startswith().        *)
(***************************************************************************)
LowerChar(c) ==
    CASE c = "R" -> "r" [] c = "K" -> "k" [] c = "P" -> "p"
      [] c = "M" -> "m" [] c = "V" -> "v" [] OTHER -> c
lower(s) == [i \in 1..Len(s) |-> LowerChar(s[i])]

\* g in s, for strings.
IsSubstr(g, s) ==
    \E i \in 0..(Len(s) - Len(g)) : SubSeq(s, i + 1, i + Len(g)) = g

StartsWith(s, t) == Len(s) >= Len(t) /\ SubSeq(s, 1, Len(t)) = t
EndsWith(s, t) == Len(s) >= Len(t) /\ SubSeq(s, Len(s) - Len(t) + 1, Len(s)) = t

\* [f(x) for x in s if keep(x)] with f = strip and keep = non-empty strip:
\* the stripped, non-empty fields of s.
RECURSIVE StrippedNonEmpty(_)
StrippedNonEmpty(parts) ==
    IF parts = <<>> THEN <<>>
    ELSE (IF strip(Head(parts)) # <<>> THEN <<strip(Head(parts))>> ELSE <<>>)
         \o StrippedNonEmpty(Tail(parts))

(***************************************************************************)
(* Files. A path is [parent, name]: str(p.parent) and p.name. A directory  *)
(* entry has the path it is found under and the path it resolves to        *)
(* (Path.resolve(): different for a symbolic link).                        *)
(***************************************************************************)
ExtMp4 == <<".", "m", "p", "4">>
ExtMov == <<".", "m", "o", "v">>
DirM == <<"/", "m">>
DirRk == <<"/", "m", "/", "r", "k">>
DirRkX == <<"/", "m", "/", "r", "k", "/", "x">>

PathA == [parent |-> DirM, name |-> <<"a">> \o ExtMp4]
PathB == [parent |-> DirM, name |-> <<"b">> \o ExtMp4]
PathC == [parent |-> DirM, name |-> <<"c">> \o ExtMov]
PathN == [parent |-> DirM, name |-> <<"n", ".", "t", "x", "t">>]
PathD == [parent |-> DirRk, name |-> <<"d">> \o ExtMp4]
PathE == [parent |-> DirRkX, name |-> <<"e", ".", "M", "K", "V">>]
PathS == [parent |-> DirM, name |-> <<"s">> \o ExtMp4]

Entry(p, r) == [path |-> p, real |-> r]

\* The files a directory tree /m can hold, in the order sorted() gives their
\* paths (a.mp4 < b.mp4 < c.mov < n.txt < rk/d.mp4 < rk/x/e.MKV < s.mp4);
\* s.mp4 is a symbolic link to a.mp4.
DirUniverse ==
    << Entry(PathA, PathA), Entry(PathB, PathB), Entry(PathC, PathC),
       Entry(PathN, PathN), Entry(PathD, PathD), Entry(PathE, PathE),
       Entry(PathS, PathA) >>

\* sorted(entries): the entries of the set in path order.
RECURSIVE SortedFrom(_, _)
SortedFrom(set, i) ==
    IF i > Len(DirUniverse) THEN <<>>
    ELSE (IF DirUniverse[i] \in set THEN <<DirUniverse[i]>> ELSE <<>>)
         \o SortedFrom(set, i + 1)
sorted(set) == SortedFrom(set, 1)

\* A glob pattern of the shape <prefix>*<suffix>, e.g. *.mp4 or a*.
Glob(prefix, suffix) == [prefix |-> prefix, suffix |-> suffix]
GlobMp4 == Glob(<<>>, ExtMp4)
GlobMov == Glob(<<>>, ExtMov)
GlobA == Glob(<<"a">>, <<>>)

\* Whether a file name matches the pattern (case-sensitive).
Matches(pat, name) ==
    /\ Len(name) >= Len(pat.prefix) + Len(pat.suffix)
    /\ StartsWith(name, pat.prefix)
    /\ EndsWith(name, pat.suffix)

\* input_dir.rglob(pat): the files of the tree whose name matches.
rglob(dir, pat) == {e \in dir : Matches(pat, e.path.name)}

\* p.suffix: the name from its last dot on ("" without a dot past the start).
suffix(name) ==
    LET dots == {i \in 2..Len(name) : name[i] = "."}
    IN  IF dots = {} \/ name[Len(name)] = "." THEN <<>>
        ELSE LET i == CHOOSE k \in dots : \A m \in dots : m <= k
             IN  SubSeq(name, i, Len(name))

VIDEO_EXTS ==
    {ExtMp4, ExtMov, <<".", "m", "k", "v">>, <<".", "w", "e", "b", "m">>,
     <<".", "m", "4", "v">>}

\* A scan that resolves the paths and keeps every one of them.
RECURSIVE BadUnique(_, _)
BadUnique(files, seen) ==
    IF files = <<>> THEN <<>> ELSE <<Head(files).real>> \o BadUnique(Tail(files), seen)

\* for p in files: rp = p.resolve(); if rp not in seen: ... unique.append(rp)
RECURSIVE Unique(_, _)
Unique(files, seen) ==
    IF files = <<>> THEN <<>>
    ELSE LET rp == Head(files).real
         IN  IF rp \in seen THEN Unique(Tail(files), seen)
             ELSE <<rp>> \o Unique(Tail(files), seen \cup {rp})

\* A scan that takes the patterns from the last to the first.
RECURSIVE BadExtendAll(_, _)
BadExtendAll(dir, patterns) ==
    IF patterns = <<>> THEN <<>>
    ELSE BadExtendAll(dir, Tail(patterns)) \o sorted(rglob(dir, Head(patterns)))

\* files.extend(sorted(input_dir.rglob(pat))) for each pattern.
RECURSIVE ExtendAll(_, _)
ExtendAll(dir, patterns) ==
    IF patterns = <<>> THEN <<>>
    ELSE sorted(rglob(dir, Head(patterns))) \o ExtendAll(dir, Tail(patterns))

\* A fallback scan that compares the extensions as they are spelled.
BadFallbackScan(scanOrder) ==
    SelectSeq(scanOrder, LAMBDA e : suffix(e.path.name) \in VIDEO_EXTS)

\* The fallback scan of rglob("**/*"), which is not sorted: the matching
\* entries in the order the operating system lists them (scanOrder, a list
\* of all the entries of the tree).
FallbackScan(scanOrder) ==
    SelectSeq(scanOrder, LAMBDA e : lower(suffix(e.path.name)) \in VIDEO_EXTS)

_scan_dir(dir, scanOrder, patterns) ==
    LET files == ExtendAll(dir, patterns)
    IN  Unique(IF files = <<>> THEN FallbackScan(scanOrder) ELSE files, {})

\* The orders in which the operating system may list a tree's entries.
ScanOrders(dir) ==
    {o \in [1..Cardinality(dir) -> dir] : \A i, j \in DOMAIN o : o[i] = o[j] => i = j}

\* A line of a playlist file: blank, a comment, or the spelling of a path
\* (the entry it names; "   " and "# x" stand for the other two kinds).
LineBlank == [kind |-> "blank", entry |-> Entry(PathA, PathA)]
LineComment == [kind |-> "comment", entry |-> Entry(PathA, PathA)]
LinePath(e) == [kind |-> "path", entry |-> e]

\* s = line.strip(); if not s or s.startswith("#"): continue
\* out.append(Path(s).expanduser().resolve())
RECURSIVE _read_playlist(_)
_read_playlist(lines) ==
    IF lines = <<>> THEN <<>>
    ELSE (IF Head(lines).kind = "path" THEN <<Head(lines).entry.real>> ELSE <<>>)
         \o _read_playlist(Tail(lines))

(***************************************************************************)
(* Genres of local files: _load_genre_map, _filter_by_genre (cli.py 49-79).*)
(* The mapping is a function from resolved paths to sets of tags.          *)
(***************************************************************************)
\* {x.strip().lower() for x in g.split("|") if x.strip()}
TagSet(g) == {lower(t) : t \in Range(StrippedNonEmpty(split(g, "|")))}


\* for row in reader: p = Path(row["path"]).expanduser().resolve();
\* g = row["genre"].strip(); if not g: continue; mapping[p] = genres
RECURSIVE LoadRows(_, _)
LoadRows(rows, mapping) ==
    IF rows = <<>> THEN mapping
    ELSE LET p == Head(rows).path.real
             g == strip(Head(rows).genre)
         IN  IF g = <<>> THEN LoadRows(Tail(rows), mapping)
             ELSE LoadRows(Tail(rows),
                      [q \in DOMAIN mapping \cup {p} |->
                          IF q = p THEN TagSet(g) ELSE mapping[q]])

EmptyMap == [q \in {} |-> {}]

\* The CSV given by --genres-csv: its rows, or NoCsv when the option is
\* absent (typer's exists=True refuses a path that does not exist).
NoCsv == <<[path |-> Entry(PathA, PathA), genre |-> <<"-">>, absent |-> TRUE]>>
_load_genre_map(csv) == IF csv = NoCsv THEN EmptyMap ELSE LoadRows(csv, EmptyMap)

\* The --genre option when it is not given.
NoGenre == <<"-">>

\* Whether _filter_by_genre keeps p for the stripped, lowercased term g.
KeepsFile(p, g, genre_map) ==
    \/ p \in DOMAIN genre_map /\ genre_map[p] # {} /\ g \in genre_map[p]
    \/ IsSubstr(g, lower(p.name))
    \/ IsSubstr(g, lower(p.parent))

_filter_by_genre(files, genre, genre_map) ==
    IF genre = NoGenre \/ genre = <<>> THEN files
    ELSE SelectSeq(files, LAMBDA p : KeepsFile(p, lower(strip(genre)), genre_map))

(***************************************************************************)
(* YouTube references (cli.py 203-310). A reference is a string whose      *)
(* elements are the pieces of a URL: "https://", a host, "/", "/watch",    *)
(* "?v=", and video ids. IdX and IdY stand for ids of 11 characters, IdQ   *)
(* for one of 3 characters.                                                *)
(***************************************************************************)
IdX == "<idX>"
IdY == "<idY>"
IdQ == "<idQ>"
Https == "https://"
YoutuBe == "youtu.be"
YoutubeCom == "www.youtube.com"
OtherHost == "example.org"
LookalikeHost == "notyoutu.be"
Hosts == {YoutuBe, YoutubeCom, OtherHost, LookalikeHost}
\* What u.path.strip("/") leaves of a leading "/watch".
Watch == "watch"

\* len(s): the ids of 11 and of 3 characters, the pieces by their spelling.
PieceLen(t) ==
    CASE t \in {IdX, IdY, LookalikeHost, OtherHost} -> 11
      [] t = IdQ -> 3
      [] t \in {Https, YoutuBe} -> 8
      [] t = YoutubeCom -> 15
      [] t = "/watch" -> 6
      [] t = "?v=" -> 3
      [] OTHER -> 1
RECURSIVE RefLen(_)
RefLen(s) == IF s = <<>> THEN 0 ELSE PieceLen(Head(s)) + RefLen(Tail(s))
RefLong(s) == RefLen(s) >= 8

\* "/" in s, "?" in s or "&" in s.
HasUrlChars(s) ==
    \E i \in 1..Len(s) : s[i] \in {Https, "/", "/watch", "?v=", "&"}

\* The first index from a on of a piece among seps, Len(s) + 1 if none.
FirstAt(s, a, seps) ==
    IF \E k \in a..Len(s) : s[k] \in seps
    THEN CHOOSE k \in a..Len(s) :
             s[k] \in seps /\ \A m \in a..(k - 1) : s[m] \notin seps
    ELSE Len(s) + 1

\* urlparse(s): where the network location starts (after "https://" or a
\* leading "//"; 0 when s has none), where it ends, and where the query
\* starts. "https://" is the first piece of s or no piece of it.
NetlocFrom(s) ==
    IF s # <<>> /\ s[1] = Https THEN 2
    ELSE IF Len(s) >= 2 /\ s[1] = "/" /\ s[2] \in {"/", "/watch"} THEN 3
    ELSE 0
NetlocEnd(s) == FirstAt(s, NetlocFrom(s), {"/", "/watch", "?v="})
QueryAt(s) == FirstAt(s, 1, {"?v="})

\* u.netloc.endswith(domain), for the domains youtu.be and youtube.com: by
\* the last piece of the network location.
netloc(s) ==
    IF NetlocFrom(s) > 0 /\ NetlocEnd(s) > NetlocFrom(s)
    THEN s[NetlocEnd(s) - 1] ELSE ""
EndsYoutuBe(s) == netloc(s) \in {YoutuBe, LookalikeHost}
EndsYoutubeCom(s) == netloc(s) = YoutubeCom

\* str.strip("/") of a path: the slashes at both ends removed.
RECURSIVE LStripSlash(_)
LStripSlash(p) ==
    IF p = <<>> THEN p
    ELSE IF Head(p) = "/" THEN LStripSlash(Tail(p))
    ELSE IF Head(p) = "/watch" THEN <<Watch>> \o Tail(p)
    ELSE p
RECURSIVE RStripSlash(_)
RStripSlash(p) ==
    IF p # <<>> /\ p[Len(p)] = "/" THEN RStripSlash(SubSeq(p, 1, Len(p) - 1))
    ELSE p

\* u.path.strip("/") of a youtu.be URL: what lies between the network location
\* and the query, the slashes at its ends removed.
PathId(s) ==
    RStripSlash(LStripSlash(SubSeq(s, NetlocEnd(s), QueryAt(s) - 1)))

\* parse_qs(u.query).get("v", [""])[0]: the value of v, "" without one: what
\* follows "?v=" up to the next "&".
QueryV(s) ==
    SubSeq(s, QueryAt(s) + 1, FirstAt(s, QueryAt(s) + 1, {"&"}) - 1)

_extract_video_id(url_or_id) ==
    LET s == strip(url_or_id)
    IN  IF s = <<>> THEN s
        ELSE IF ~HasUrlChars(s) /\ RefLong(s) THEN s
        ELSE IF EndsYoutuBe(s) THEN PathId(s)
        ELSE IF EndsYoutubeCom(s) /\ QueryV(s) # <<>> THEN QueryV(s)
        ELSE s

\* A line of a --urls-file: blank, a comment, or a reference.
UrlBlank == [kind |-> "blank", ref |-> <<>>]
UrlComment == [kind |-> "comment", ref |-> <<>>]
UrlRef(s) == [kind |-> "ref", ref |-> s]

\* scripts/validate_playlist.py, extract_video_id: the same steps.
extract_video_id(url_or_id) ==
    LET s == strip(url_or_id)
    IN  IF s = <<>> THEN s
        ELSE IF ~HasUrlChars(s) /\ RefLong(s) THEN s
        ELSE IF EndsYoutuBe(s) THEN PathId(s)
        ELSE IF EndsYoutubeCom(s) /\ QueryV(s) # <<>> THEN QueryV(s)
        ELSE s

\* out.append((_extract_video_id(s), "")) for each line that is a reference.
RECURSIVE _read_youtube_list(_)
_read_youtube_list(lines) ==
    IF lines = <<>> THEN <<>>
    ELSE (IF Head(lines).kind = "ref"
          THEN <<[id |-> _extract_video_id(Head(lines).ref), title |-> <<>>]>>
          ELSE <<>>)
         \o _read_youtube_list(Tail(lines))

(***************************************************************************)
(* The YouTube CSV: _read_youtube_csv (cli.py 266-310). A row is a dict    *)
(* from the header names to the cells; the headers of the model are id,    *)
(* url, title, genre, chorus and start, none of which contains another     *)
(* field's synonym, so the fuzzy pass of pick_key finds what the exact     *)
(* pass finds.                                                             *)
(***************************************************************************)
\* word in lk, for a header lk and a synonym word.
WordInKey(word, lk) == word = lk

\* pick_key(d, candidates): the first non-empty cell under a candidate key,
\* else the first non-empty cell under a key containing a candidate, else "".
pick_key(d, candidates) ==
    IF \E i \in 1..Len(candidates) :
           candidates[i] \in DOMAIN d /\ strip(d[candidates[i]]) # <<>>
    THEN LET i == CHOOSE k \in 1..Len(candidates) :
                      /\ candidates[k] \in DOMAIN d
                      /\ strip(d[candidates[k]]) # <<>>
                      /\ \A m \in 1..(k - 1) :
                             ~(candidates[m] \in DOMAIN d
                               /\ strip(d[candidates[m]]) # <<>>)
         IN  strip(d[candidates[i]])
    ELSE LET fuzzy == {key \in DOMAIN d :
                          /\ \E i \in 1..Len(candidates) :
                                 WordInKey(candidates[i], key)
                          /\ strip(d[key]) # <<>>}
         IN  IF fuzzy = {} THEN <<>>
             ELSE strip(d[CHOOSE key \in fuzzy : TRUE])

\* ref = vid or url
RowRef(vid, url) == IF vid # <<>> THEN vid ELSE url

\* The dict _read_youtube_csv appends for a row with a reference.
RowItem(row) ==
    LET vid == pick_key(row, <<"id", "video_id", "youtube_id">>)
        url == pick_key(row, <<"url", "link", "youtube_url">>)
    IN  [id |-> _extract_video_id(RowRef(vid, url)),
         title |-> pick_key(row, <<"title", "name", "track">>),
         genre |-> pick_key(row, <<"genre", "genres", "tag", "tags">>),
         chorus |-> _parse_timecode(
                        pick_key(row, <<"chorus", "chorus_at", "chorus_time">>)),
         start |-> _parse_timecode(
                       pick_key(row, <<"start", "start_at", "offset",
                                       "clip_start", "start_seconds">>))]

\* Whether a row has a reference: ref = vid or url; if not ref: continue
HasRef(row) ==
    RowRef(pick_key(row, <<"id", "video_id", "youtube_id">>),
           pick_key(row, <<"url", "link", "youtube_url">>)) # <<>>

\* The exception raised while a row is read, "" if none. A row with more
\* cells than the header has names comes from csv.DictReader with the list
\* of the extra cells under the key None (the field "" here), and
\* (v or "").strip() of that list is an AttributeError; _parse_timecode may
\* raise OverflowError.
RowError(row) ==
    IF "" \in DOMAIN row THEN "AttributeError"
    ELSE IF HasRef(row) /\ (RowItem(row).chorus.kind = "OverflowError"
                            \/ RowItem(row).start.kind = "OverflowError")
    THEN "OverflowError"
    ELSE ""
RowRaises(row) == RowError(row) # ""

\* The exception that ends the reading of the rows: the first one raised.
RECURSIVE FirstError(_)
FirstError(rows) ==
    IF rows = <<>> THEN ""
    ELSE IF RowRaises(Head(rows)) THEN RowError(Head(rows))
    ELSE FirstError(Tail(rows))

RECURSIVE _read_youtube_csv(_)
_read_youtube_csv(rows) ==
    IF rows = <<>> THEN <<>>
    ELSE (IF HasRef(Head(rows)) THEN <<RowItem(Head(rows))>> ELSE <<>>)
         \o _read_youtube_csv(Tail(rows))

\* parts = [x.strip() for x in raw.split("|") if x.strip()]
\* if not parts and raw: parts = [raw]
GenreParts(raw) ==
    LET parts == StrippedNonEmpty(split(raw, "|"))
    IN  IF parts = <<>> /\ raw # <<>> THEN <<raw>> ELSE parts

\* A match that wants the term to be a whole tag.
BadMatchesGenre(it, g) ==
    \E p \in Range(GenreParts(lower(it.genre))) : g = p

\* any(g == p or g in p for p in parts)
MatchesGenre(it, g) ==
    \E p \in Range(GenreParts(lower(it.genre))) : g = p \/ IsSubstr(g, p)

_filter_items_by_genre(items, genre) ==
    IF genre = NoGenre \/ genre = <<>> THEN items
    ELSE SelectSeq(items, LAMBDA it : MatchesGenre(it, lower(strip(genre))))

(***************************************************************************)
(* Timing resolution: build_youtube_html (cli.py 802-808).                 *)
(***************************************************************************)
\* A float as a number of seconds; float infinity is beyond every number of
\* the model.
IsNumber(t) == t.kind \in {"float", "inf", "-inf"}

\* max(0.0, x - d) for a float x and a number d >= 0.
ClampedFrom(x, d) ==
    CASE x.kind = "inf" -> Inf
      [] x.kind = "-inf" -> Float(0)
      [] OTHER -> Float(Max(0, x.val - d))

\* max(0.0, float(chorus) - pre_chorus)
ChorusStart(chorus, pre_chorus) == ClampedFrom(chorus, pre_chorus)

\* A resolution that prefers the start field to the chorus.
BadResolveStart(r, pre_chorus, default_start) ==
    IF IsNumber(r.start) THEN ClampedFrom(r.start, 0)
    ELSE IF IsNumber(r.chorus) THEN ChorusStart(r.chorus, pre_chorus)
    ELSE Float(default_start)

\* start = default_start
\* if isinstance(chorus, (int, float)): start = max(0.0, float(chorus) - pre_chorus)
\* elif isinstance(start_field, (int, float)): start = max(0.0, float(start_field))
ResolveStart(r, pre_chorus, default_start) ==
    IF IsNumber(r.chorus) THEN ChorusStart(r.chorus, pre_chorus)
    ELSE IF IsNumber(r.start) THEN ClampedFrom(r.start, 0)
    ELSE Float(default_start)

Seeds == {None} \cup 0..MaxSeed

SelInputs ==
    [n : 0..MaxItems, limit : 1..MaxLimit, shuffle : BOOLEAN, seed : Seeds]

SelInit ==
    /\ selIn \in SelInputs
    /\ selOuts = {}

SelIdle ==
    /\ selIn = [n |-> 0, limit |-> 1, shuffle |-> FALSE, seed |-> None]
    /\ selOuts = {}

\* A call of _pick on the candidates of selIn.
Pick ==
    \E e \in 0..MaxEntropy :
        /\ selOuts' = selOuts \cup
               {[fn |-> "_pick",
                 out |-> _pick(Ids(selIn.n), selIn.limit, selIn.shuffle,
                               selIn.seed, e)]}
        /\ UNCHANGED <<selIn, notSel>>

\* A call of _pick_dict on the candidates of selIn.
PickDict ==
    \E e \in 0..MaxEntropy :
        /\ selOuts' = selOuts \cup
               {[fn |-> "_pick_dict",
                 out |-> _pick_dict(Ids(selIn.n), selIn.limit, selIn.shuffle,
                                    selIn.seed, e)]}
        /\ UNCHANGED <<selIn, notSel>>

\* A call of _pick_tuples on the candidates of selIn.
PickTuples ==
    \E e \in 0..MaxEntropy :
        /\ selOuts' = selOuts \cup
               {[fn |-> "_pick_tuples",
                 out |-> _pick_tuples(Ids(selIn.n), selIn.limit, selIn.shuffle,
                                      selIn.seed, e)]}
        /\ UNCHANGED <<selIn, notSel>>

(***************************************************************************)
(* _parse_timecode applied to a string.                                    *)
(***************************************************************************)
RECURSIVE StringsUpTo(_)
StringsUpTo(n) ==
    IF n = 0 THEN {<<>>}
    ELSE LET shorter == StringsUpTo(n - 1)
         IN  shorter \cup {Append(s, c) : s \in shorter, c \in TcChars}

\* The examples of the documentation that are longer than MaxTcLen.
TcSamples ==
    { <<"1", ":", "0", "1", ":", "3", "0">>,
      <<"1", ":", "3", ":", "0", ":", "9">>,
      <<"1", ZeroRun, ":", "0", "0">>,
      <<"0", ":", "0", ":", "1", ZeroRun>> }

TcInputs == StringsUpTo(MaxTcLen) \cup TcSamples

NotCalled == [kind |-> "not called", val |-> 0]

TcInit ==
    /\ tcIn \in TcInputs
    /\ tcOut = NotCalled

TcIdle ==
    /\ tcIn = <<>>
    /\ tcOut = NotCalled

ParseTimecode ==
    /\ tcOut = NotCalled
    /\ tcOut' = _parse_timecode(tcIn)
    /\ UNCHANGED <<tcIn, notTc>>

TcNext == ParseTimecode

(***************************************************************************)
(* The genre functions applied to a mapping CSV, a term and a file list.   *)
(***************************************************************************)
GenreCells ==
    { <<"r", "k">>, <<"p">>, <<"R", "K", "|", "p">>, <<" ", "r", "k", " ">>,
      <<" ">>, <<"|">> }
MapPaths == {Entry(PathA, PathA), Entry(PathS, PathA), Entry(PathD, PathD)}
MapRows == [path : MapPaths, genre : GenreCells]
GenreTerms == {<<"r", "k">>, <<"R", "K">>, <<" ", "p", " ">>, <<"x">>}

RECURSIVE SeqsUpTo(_, _)
SeqsUpTo(S, n) ==
    IF n = 0 THEN {<<>>}
    ELSE LET shorter == SeqsUpTo(S, n - 1)
         IN  shorter \cup {Append(s, x) : s \in shorter, x \in S}

GenFiles == <<PathA, PathB, PathD, PathE>>

GenIdle ==
    /\ genIn = [csv |-> <<>>, genre |-> NoGenre]
    /\ genOut = [called |-> FALSE, map |-> EmptyMap, out |-> <<>>]

GenInit ==
    /\ genIn \in [csv : SeqsUpTo(MapRows, MaxMapRows), genre : GenreTerms]
    /\ genOut = [called |-> FALSE, map |-> EmptyMap, out |-> <<>>]

\* genre_map = _load_genre_map(genres_csv)
\* files = _filter_by_genre(files, genre, genre_map)
FilterByGenre ==
    /\ ~genOut.called
    /\ LET genre_map == _load_genre_map(genIn.csv)
       IN  genOut' = [called |-> TRUE, map |-> genre_map,
                      out |-> _filter_by_genre(GenFiles, genIn.genre, genre_map)]
    /\ UNCHANGED <<genIn, notGen>>

(***************************************************************************)
(* The commands: plan, build, build_youtube_html. A run is the whole       *)
(* handler; run records what it was given and what it did.                 *)
(***************************************************************************)
NoRun ==
    [cmd |-> "none", mode |-> "none", args |-> <<>>, refs |-> <<>>,
     read |-> <<>>, filtered |-> <<>>, picked |-> <<>>, warnings |-> {},
     exit |-> 0, error |-> "", emitted |-> FALSE, artifact |-> <<>>]

CmdIdle == run = NoRun

\* pats = [p.strip() for p in pattern.split(",") if p.strip()]: a piece of
\* the pattern option is blank or a glob.
Piece(g) == [blank |-> FALSE, glob |-> g]
BlankPiece == [blank |-> TRUE, glob |-> GlobA]
RECURSIVE Pats(_)
Pats(pattern) ==
    IF pattern = <<>> THEN <<>>
    ELSE (IF Head(pattern).blank THEN <<>> ELSE <<Head(pattern).glob>>)
         \o Pats(Tail(pattern))

WarnFewer == "Warning: only N files available"
WarnNoGenreData == "No 'genre' data found in CSV; ignoring --genre filter."
NoteGenreIgnored == "Note: --genre is ignored when using --urls-file"
ErrNoInput == "Provide either"
ErrNoFiles == "No files after filtering"
ErrNoRows == "No rows matched your filters"
ErrNoIds == "No valid YouTube IDs/URLs found"

\* The steps plan and build share (cli.py 114-129, 156-172): resolution,
\* genre filtering, selection. a: [mode, playlist, dir, scanOrder, pattern,
\* genre, csv, limit, shuffle, seed, entropy].
LocalFiles(a) ==
    IF a.mode = "playlist" THEN _read_playlist(a.playlist)
    ELSE _scan_dir(a.dir, a.scanOrder, Pats(a.pattern))

\* A pipeline that selects before it filters.
BadLocalPicked(resolved, a) ==
    _filter_by_genre(_pick(resolved, a.limit, a.shuffle, a.seed, a.entropy),
                     a.genre, _load_genre_map(a.csv))
\* genre_map = _load_genre_map(genres_csv)
\* files = _filter_by_genre(files, genre, genre_map)
\* picked = _pick(files, limit=limit, shuffle=shuffle, seed=seed)
LocalPicked(resolved, a) ==
    _pick(_filter_by_genre(resolved, a.genre, _load_genre_map(a.csv)),
          a.limit, a.shuffle, a.seed, a.entropy)

LocalRun(cmd, a, warnFewer, builds) ==
    IF a.mode = "none"
    THEN [NoRun EXCEPT !.cmd = cmd, !.args = a, !.exit = 2, !.error = ErrNoInput]
    ELSE LET resolved == LocalFiles(a)
             files == _filter_by_genre(resolved, a.genre, _load_genre_map(a.csv))
             picked == LocalPicked(resolved, a)
             base == [NoRun EXCEPT !.cmd = cmd, !.mode = a.mode, !.args = a,
                                   !.refs = resolved, !.read = resolved,
                                   !.filtered = files]
         IN  IF files = <<>>
             THEN [base EXCEPT !.exit = 2, !.error = ErrNoFiles]
             ELSE [base EXCEPT
                      !.picked = picked,
                      !.warnings = IF warnFewer /\ Len(picked) < a.limit
                                   THEN {WarnFewer} ELSE {},
                      !.emitted = builds,
                      !.exit = IF builds THEN 0 ELSE 1,
                      !.error = IF builds THEN "" ELSE "build_power_hour raised",
                      !.artifact = IF builds THEN picked ELSE <<>>]

\* plan: _print_plan(picked) follows the selection; no warning is printed.
plan(a) == LocalRun("plan", a, FALSE, TRUE)

\* build: the warning of cli.py 173-174, then build_power_hour(picked, ...),
\* which writes the video (builds) or raises.
build(a, builds) == LocalRun("build", a, TRUE, builds)

\* any((r.get("genre") or "").strip() for r in rows)
BadAnyGenreVal(rows) == rows # <<>>
any_genre_val(rows) == \E i \in 1..Len(rows) : strip(rows[i].genre) # <<>>

\* for r in rows: vid = r.get("id", ""); if not vid: continue
\* ... final_items.append((vid, title, start))
RECURSIVE FinalItems(_, _, _)
FinalItems(rows, pre_chorus, default_start) ==
    IF rows = <<>> THEN <<>>
    ELSE (IF Head(rows).id = <<>> THEN <<>>
          ELSE <<[id |-> Head(rows).id, title |-> Head(rows).title,
                  start |-> ResolveStart(Head(rows), pre_chorus, default_start)]>>)
         \o FinalItems(Tail(rows), pre_chorus, default_start)

\* final_items = [(vid, title, default_start) for (vid, title) in tuples if vid]
RECURSIVE FinalTuples(_, _)
FinalTuples(tuples, default_start) ==
    IF tuples = <<>> THEN <<>>
    ELSE (IF Head(tuples).id = <<>> THEN <<>>
          ELSE <<[id |-> Head(tuples).id, title |-> Head(tuples).title,
                  start |-> Float(default_start)]>>)
         \o FinalTuples(Tail(tuples), default_start)

Ids_of(items) == [i \in 1..Len(items) |-> items[i].id]

\* An end that writes the HTML whatever the list holds.
BadYtEmit(base, final_items) ==
    [base EXCEPT !.emitted = TRUE, !.artifact = final_items]
\* The end of build_youtube_html (cli.py 819-822).
YtEmit(base, final_items) ==
    IF final_items = <<>>
    THEN [base EXCEPT !.exit = 2, !.error = ErrNoIds]
    ELSE [base EXCEPT !.emitted = TRUE, !.artifact = final_items]

\* build_youtube_html (cli.py 777-822). a: [mode, csv, lines, genre, limit,
\* shuffle, seed, entropy, pre_chorus, default_start].
build_youtube_html(a) ==
    LET base0 == [NoRun EXCEPT !.cmd = "build_youtube_html", !.mode = a.mode,
                               !.args = a]
    IN  IF a.mode = "csv"
        THEN IF \E i \in 1..Len(a.csv) : RowRaises(a.csv[i])
             THEN [base0 EXCEPT !.exit = 1, !.error = FirstError(a.csv)]
             ELSE
             LET read == _read_youtube_csv(a.csv)
                 given == a.genre # NoGenre /\ a.genre # <<>>
                 skip == given /\ ~any_genre_val(read)
                 rows == IF given /\ ~skip
                         THEN _filter_items_by_genre(read, a.genre) ELSE read
                 base == [base0 EXCEPT
                             !.refs = Ids_of(read), !.read = read,
                             !.filtered = rows,
                             !.warnings = IF skip THEN {WarnNoGenreData} ELSE {}]
                 picked == _pick_dict(rows, a.limit, a.shuffle, a.seed, a.entropy)
             IN  IF rows = <<>>
                 THEN [base EXCEPT !.exit = 2, !.error = ErrNoRows]
                 ELSE YtEmit([base EXCEPT !.picked = picked],
                             FinalItems(picked, a.pre_chorus, a.default_start))
        ELSE IF a.mode = "file"
        THEN LET tuples == _read_youtube_list(a.lines)
                 given == a.genre # NoGenre /\ a.genre # <<>>
                 picked == _pick_tuples(tuples, a.limit, a.shuffle, a.seed,
                                        a.entropy)
                 base == [base0 EXCEPT
                             !.refs = Ids_of(tuples), !.read = tuples,
                             !.filtered = tuples, !.picked = picked,
                             !.warnings = IF given THEN {NoteGenreIgnored} ELSE {}]
             IN  YtEmit(base, FinalTuples(picked, a.default_start))
        ELSE [base0 EXCEPT !.exit = 2, !.error = ErrNoInput]

(***************************************************************************)
(* The inputs of the commands.                                             *)
(***************************************************************************)
\* The directory trees: at most MaxDirFiles files; the link s.mp4 needs its
\* target a.mp4.
Dirs ==
    {d \in SUBSET Range(DirUniverse) :
        /\ Cardinality(d) <= MaxDirFiles
        /\ Entry(PathS, PathA) \in d => Entry(PathA, PathA) \in d}

\* Values of --pattern: "*.mp4", "*.mp4,*.mov" (the default), "*.mp4, ,a*"
\* and "*.mov".
Patterns ==
    { <<Piece(GlobMp4)>>, <<Piece(GlobMp4), Piece(GlobMov)>>,
      <<Piece(GlobMp4), BlankPiece, Piece(GlobA)>>, <<Piece(GlobMov)>> }

\* The scan orders that matter: the fallback scan alone is not sorted.
OrdersFor(dir, pattern) ==
    IF ExtendAll(dir, Pats(pattern)) = <<>> THEN ScanOrders(dir) ELSE {sorted(dir)}

PlaylistLines ==
    { LineBlank, LineComment, LinePath(Entry(PathA, PathA)),
      LinePath(Entry(PathS, PathA)), LinePath(Entry(PathB, PathB)),
      LinePath(Entry(PathD, PathD)) }

\* The --genres-csv files of the command runs: none, or path,genre rows
\* "a.mp4,rk" and "rk/d.mp4,p".
CmdMapCsvs ==
    { NoCsv,
      << [path |-> Entry(PathA, PathA), genre |-> <<"r", "k">>],
         [path |-> Entry(PathD, PathD), genre |-> <<"p">>] >> }

CmdGenres == {NoGenre, <<"r", "k">>, <<"x">>}
CmdSeeds == {None, 0}

\* The entropy matters only to an unseeded shuffle.
Entropies(doShuffle, seed) ==
    IF doShuffle /\ seed = None THEN 0..MaxEntropy ELSE {0}

LocalSources ==
    {[mode |-> "none", playlist |-> <<>>, dir |-> {}, scanOrder |-> <<>>,
      pattern |-> <<>>]}
    \cup {[mode |-> "playlist", playlist |-> pl, dir |-> {}, scanOrder |-> <<>>,
           pattern |-> <<>>] : pl \in SeqsUpTo(PlaylistLines, MaxLines)}
    \cup UNION {UNION {{[mode |-> "dir", playlist |-> <<>>, dir |-> d,
                         scanOrder |-> o, pattern |-> pat] :
                            o \in OrdersFor(d, pat)} : pat \in Patterns} :
                   d \in Dirs}

LocalArgs(src, genre, csv, limit, doShuffle, seed, e) ==
    [mode |-> src.mode, playlist |-> src.playlist, dir |-> src.dir,
     scanOrder |-> src.scanOrder, pattern |-> src.pattern, genre |-> genre,
     csv |-> csv, limit |-> limit, shuffle |-> doShuffle, seed |-> seed,
     entropy |-> e]

Tc30 == <<"3", "0">>
Tc3 == <<"3">>
Tc13 == <<"1", "3">>
TitleT == <<"T">>
YtRow(id, url, title, genre, chorus, start) ==
    [id |-> id, url |-> url, title |-> title, genre |-> genre,
     chorus |-> chorus, start |-> start]

\* Rows of a --urls-csv file with the headers id,url,title,genre,chorus,start.
YtRows ==
    { YtRow(<<IdX>>, <<>>, TitleT, <<"r", "k">>, Tc30, <<>>),
      YtRow(<<>>, <<Https, YoutuBe, "/", IdY>>, <<>>, <<"p", "|", "R", "K">>,
            <<>>, Tc13),
      YtRow(<<IdX>>, <<Https, YoutubeCom, "/watch", "?v=", IdY>>, TitleT, <<>>,
            Tc3, Tc13),
      YtRow(<<>>, <<>>, TitleT, <<"r", "k">>, Tc30, <<>>),
      YtRow(<<>>, <<Https, YoutuBe, "/">>, TitleT, <<"p">>, <<>>, <<>>),
      YtRow(<<IdQ>>, <<>>, <<>>, <<>>, <<"a">>, <<>>),
      YtRow(<<IdY>>, <<>>, TitleT, <<>>, <<>>, <<>>) }

UrlLines ==
    { UrlBlank, UrlComment, UrlRef(<<IdX>>), UrlRef(<<Https, YoutuBe, "/", IdX>>),
      UrlRef(<<Https, YoutubeCom, "/watch", "?v=", IdY>>), UrlRef(<<IdQ>>),
      UrlRef(<<Https, YoutuBe, "/">>) }

PreChorusVals == {0, 10}
DefaultStarts == {0, 7}

YtSources ==
    {[mode |-> "none", csv |-> <<>>, lines |-> <<>>]}
    \cup {[mode |-> "csv", csv |-> c, lines |-> <<>>] :
             c \in SeqsUpTo(YtRows, MaxCsvRows)}
    \cup {[mode |-> "file", csv |-> <<>>, lines |-> l] :
             l \in SeqsUpTo(UrlLines, MaxLines)}

YtArgs(src, genre, limit, doShuffle, seed, e, pre, dflt) ==
    [mode |-> src.mode, csv |-> src.csv, lines |-> src.lines, genre |-> genre,
     limit |-> limit, shuffle |-> doShuffle, seed |-> seed, entropy |-> e,
     pre_chorus |-> pre, default_start |-> dflt]

(***************************************************************************)
(* One invocation of a command (each invocation is a process of its own).  *)
(***************************************************************************)
Plan ==
    /\ run = NoRun
    /\ \E src \in LocalSources, genre \in CmdGenres, csv \in CmdMapCsvs,
          limit \in 1..MaxCmdLimit, doShuffle \in BOOLEAN, seed \in CmdSeeds :
          \E e \in Entropies(doShuffle, seed) :
              run' = plan(LocalArgs(src, genre, csv, limit, doShuffle, seed, e))
    /\ UNCHANGED notCmd

Build ==
    /\ run = NoRun
    /\ \E src \in LocalSources, genre \in CmdGenres, csv \in CmdMapCsvs,
          limit \in 1..MaxCmdLimit, doShuffle \in BOOLEAN, seed \in CmdSeeds,
          builds \in BOOLEAN :
          \E e \in Entropies(doShuffle, seed) :
              run' = build(LocalArgs(src, genre, csv, limit, doShuffle, seed, e),
                           builds)
    /\ UNCHANGED notCmd

BuildYoutubeHtml ==
    /\ run = NoRun
    /\ \E src \in YtSources, genre \in CmdGenres, limit \in 1..MaxCmdLimit,
          doShuffle \in BOOLEAN, seed \in CmdSeeds, pre \in PreChorusVals,
          dflt \in DefaultStarts :
          \E e \in Entropies(doShuffle, seed) :
              run' = build_youtube_html(
                         YtArgs(src, genre, limit, doShuffle, seed, e, pre, dflt))
    /\ UNCHANGED notCmd

\* build_youtube_html on a CSV of one row, for every pair of chorus and start
\* cells.
CellChars == {"1", "3", ":", "a", "-", ZeroRun}
RECURSIVE CellsUpTo(_)
CellsUpTo(n) ==
    IF n = 0 THEN {<<>>}
    ELSE LET shorter == CellsUpTo(n - 1)
         IN  shorter \cup {Append(s, c) : s \in shorter, c \in CellChars}

BuildYoutubeHtmlOneRow ==
    /\ run = NoRun
    /\ \E chorus \in CellsUpTo(MaxCellLen), start \in CellsUpTo(MaxCellLen),
          pre \in PreChorusVals, dflt \in DefaultStarts :
          run' = build_youtube_html(
                     YtArgs([mode |-> "csv",
                             csv |-> <<YtRow(<<IdX>>, <<>>, TitleT, <<>>,
                                             chorus, start)>>,
                             lines |-> <<>>],
                            NoGenre, 1, FALSE, None, 0, pre, dflt))
    /\ UNCHANGED notCmd

(***************************************************************************)
(* build_power_hour (builder.py 47-123), statement by statement. A media   *)
(* handle is what VideoFileClip(path) opens: handle i for input file i,    *)
(* handle 0 for the first file when it is opened to read its size. Each    *)
(* call into the video library succeeds or raises. bld.opened: the handles *)
(* opened; bld.closed: the handles close() was called on (on the clip or   *)
(* on a clip derived from it, which shares its reader).                    *)
(***************************************************************************)
NoBuild ==
    [pc |-> "idle", n |-> 0, sized |-> TRUE, audio |-> FALSE, i |-> 0,
     opened |-> {}, closed |-> {}, clips |-> <<>>, error |-> "",
     stepError |-> "", j |-> 0, closeFailed |-> {}]

BldIdle == bld = NoBuild

\* The arguments: n input files; options.target_size given or None; whether
\* the clips have audio (options.audio_fade is 0.1).
BldInit ==
    \E n \in 0..MaxClips, sized \in BOOLEAN, audio \in BOOLEAN :
        bld = [NoBuild EXCEPT !.pc = "start", !.n = n, !.sized = sized,
                              !.audio = audio]

\* An exception leaves the try block: the finally clause runs next.
Fails(exc) ==
    [bld EXCEPT !.pc = "finally", !.error = exc, !.stepError = exc, !.j = 1]

\* if len(paths) == 0: raise ValueError("No input files provided")
BldBegin ==
    /\ bld.pc = "start"
    /\ bld' = IF bld.n = 0
              THEN [bld EXCEPT !.pc = "raised", !.error = "ValueError",
                               !.stepError = "ValueError"]
              ELSE [bld EXCEPT !.pc = IF bld.sized THEN "open" ELSE "probe",
                               !.i = 1]
    /\ UNCHANGED notBld

\* with VideoFileClip(str(paths[0])) as first: target_size = (first.w, first.h)
\* The constructor raises, or the handle is opened and the with statement
\* closes it, whether its body raises or not. This is before the try.
BldProbeFirst ==
    /\ bld.pc = "probe"
    /\ \/ bld' = [bld EXCEPT !.pc = "raised", !.error = "open failed",
                             !.stepError = "open failed"]
       \/ bld' = [bld EXCEPT !.pc = "raised", !.error = "size failed",
                             !.stepError = "size failed",
                             !.opened = @ \cup {0}, !.closed = @ \cup {0}]
       \/ bld' = [bld EXCEPT !.pc = "open",
                             !.opened = @ \cup {0}, !.closed = @ \cup {0}]
    /\ UNCHANGED notBld

\* _load_and_trim: clip = VideoFileClip(str(path))
BldOpen ==
    /\ bld.pc = "open"
    /\ \/ bld' = Fails("open failed")
       \/ bld' = [bld EXCEPT !.pc = "trim", !.opened = @ \cup {bld.i}]
    /\ UNCHANGED notBld

\* _load_and_trim: sub = clip.subclip(start, end)
BldTrim ==
    /\ bld.pc = "trim"
    /\ bld' = Fails("subclip failed") \/ bld' = [bld EXCEPT !.pc = "resize"]
    /\ UNCHANGED notBld

\* clips.append(<the clip _load_and_trim returns>), and the next p in paths.
Appended ==
    [bld EXCEPT !.clips = Append(@, bld.i), !.i = @ + 1,
                !.pc = IF bld.i = bld.n THEN "compose" ELSE "open"]

\* _load_and_trim: if target_size is not None: sub = sub.resize(...)
\* (target_size is never None here: lines 70-73 have set it.)
BldResize ==
    /\ bld.pc = "resize"
    /\ \/ bld' = Fails("resize failed")
       \/ bld' = IF bld.audio THEN [bld EXCEPT !.pc = "fade"] ELSE Appended
    /\ UNCHANGED notBld

\* _load_and_trim: if sub.audio is not None and opts.audio_fade > 0:
\* sub = sub.audio_fadein(...).audio_fadeout(...); return sub
BldFade ==
    /\ bld.pc = "fade"
    /\ bld' = Fails("fade failed") \/ bld' = Appended
    /\ UNCHANGED notBld

\* The timeline: CompositeVideoClip(...) or concatenate_videoclips(...), and
\* final.set_fps(...).
BldCompose ==
    /\ bld.pc = "compose"
    /\ bld' = Fails("compose failed") \/ bld' = [bld EXCEPT !.pc = "write"]
    /\ UNCHANGED notBld

\* final.write_videofile(...)
BldWrite ==
    /\ bld.pc = "write"
    /\ bld' = Fails("write failed")
          \/ bld' = [bld EXCEPT !.pc = "finally", !.j = 1]
    /\ UNCHANGED notBld

\* A cleanup in which a close() that raises ends the loop and is what the
\* caller gets.
BadBldClose ==
    /\ bld.pc = "finally" /\ bld.j <= Len(bld.clips)
    /\ \/ bld' = [bld EXCEPT !.closed = @ \cup {bld.clips[bld.j]}, !.j = @ + 1]
       \/ bld' = [bld EXCEPT !.closed = @ \cup {bld.clips[bld.j]},
                             !.closeFailed = @ \cup {bld.clips[bld.j]},
                             !.error = "close failed", !.pc = "raised"]
    /\ UNCHANGED notBld

\* finally: for c in clips: try: c.close() except Exception: pass
\* c.close() is called and returns, or raises and the except clause drops
\* what it raised; the loop goes on with the next clip.
BldClose ==
    /\ bld.pc = "finally" /\ bld.j <= Len(bld.clips)
    /\ \/ bld' = [bld EXCEPT !.closed = @ \cup {bld.clips[bld.j]}, !.j = @ + 1]
       \/ bld' = [bld EXCEPT !.closed = @ \cup {bld.clips[bld.j]},
                             !.closeFailed = @ \cup {bld.clips[bld.j]},
                             !.j = @ + 1]
    /\ UNCHANGED notBld

\* After the loop: return out_path, or the exception that entered the
\* finally clause goes on to the caller.
BldFinally ==
    /\ bld.pc = "finally" /\ bld.j > Len(bld.clips)
    /\ bld' = [bld EXCEPT !.pc = IF bld.error = "" THEN "returned" ELSE "raised"]
    /\ UNCHANGED notBld

(***************************************************************************)
(* _read_youtube_csv called alone on the rows of a CSV file.               *)
(***************************************************************************)
\* The row with one cell more than the header has names.
WithExtra(row) ==
    [k \in DOMAIN row \cup {""} |-> IF k = "" THEN <<"x">> ELSE row[k]]

\* The rows of YtRows, two rows with a cell too many ("<idX>,,T,rk,30,,x" and
\* ",,T,,,,x") and a row whose chorus is beyond the largest float.
CsvCallRows ==
    YtRows
    \cup { WithExtra(YtRow(<<IdX>>, <<>>, TitleT, <<"r", "k">>, Tc30, <<>>)),
           WithExtra(YtRow(<<>>, <<>>, TitleT, <<>>, <<>>, <<>>)),
           YtRow(<<IdX>>, <<>>, TitleT, <<>>, <<"0", ":", "1", ZeroRun>>, <<>>) }

CsvCallInit ==
    \E rows \in SeqsUpTo(CsvCallRows, MaxCsvRows) :
        call = [fn |-> "_read_youtube_csv", args |-> rows, out |-> Pending]

\* rows = _read_youtube_csv(urls_csv): the list, or the exception of the
\* first row that raises.
ReadYoutubeCsv ==
    /\ call.fn = "_read_youtube_csv" /\ call.out = Pending
    /\ call' = [call EXCEPT !.out =
                   IF FirstError(call.args) # ""
                   THEN [kind |-> "raised", exc |-> FirstError(call.args),
                         rows |-> <<>>]
                   ELSE [kind |-> "returned", exc |-> "",
                         rows |-> _read_youtube_csv(call.args)]]
    /\ UNCHANGED notCall

\* _filter_items_by_genre called alone: items numbered in list order with
\* genre fields of every kind, and a term (none, empty, blank, a tag in
\* either case, a part of a tag, a pipe).
ItemGenres ==
    { <<>>, <<" ">>, <<"|">>, <<"r", "k">>, <<"p", "|", "R", "K">>,
      <<" ", "p", "r", "k", " ", "|">>, <<"x">> }
ItemTerms ==
    { NoGenre, <<>>, <<" ">>, <<"|">>, <<"r", "k">>, <<" ", "R", "K", " ">>,
      <<"p">> }
ItemLists ==
    {[i \in 1..Len(gs) |-> [id |-> i, genre |-> gs[i]]] :
        gs \in SeqsUpTo(ItemGenres, MaxFilterItems)}

ItemsCallInit ==
    \E items \in ItemLists : \E genre \in ItemTerms :
        call = [fn |-> "_filter_items_by_genre",
                args |-> [items |-> items, genre |-> genre], out |-> Pending]

FilterItemsByGenre ==
    /\ call.fn = "_filter_items_by_genre" /\ call.out = Pending
    /\ call' = [call EXCEPT !.out =
                   [kind |-> "returned",
                    items |-> _filter_items_by_genre(call.args.items,
                                                     call.args.genre)]]
    /\ UNCHANGED notCall

\* _scan_dir called alone: a tree, the order in which the operating system
\* lists it, and up to MaxPatterns patterns (none included).
ScanCallInit ==
    \E dir \in Dirs :
        \E patterns \in SeqsUpTo({GlobMp4, GlobMov, GlobA}, MaxPatterns) :
            \E scanOrder \in ScanOrders(dir) :
                /\ ExtendAll(dir, patterns) # <<>> => scanOrder = sorted(dir)
                /\ call = [fn |-> "_scan_dir",
                           args |-> [dir |-> dir, scanOrder |-> scanOrder,
                                     patterns |-> patterns],
                           out |-> Pending]

ScanDir ==
    /\ call.fn = "_scan_dir" /\ call.out = Pending
    /\ call' = [call EXCEPT !.out =
                   [kind |-> "returned",
                    files |-> _scan_dir(call.args.dir, call.args.scanOrder,
                                        call.args.patterns)]]
    /\ UNCHANGED notCall

(***************************************************************************)
(* The selection and filter functions and the list they are given: the     *)
(* list object of the caller (files) and the one the function works on     *)
(* (items), which are one object when same is TRUE.                        *)
(***************************************************************************)
\* A function that works on the caller's list: items = files.
BadListCopy(files) == [files |-> files, items |-> files, same |-> TRUE]

\* items = list(files): a new list with the same elements.
list_copy(files) == [files |-> files, items |-> files, same |-> FALSE]

\* rnd = random.Random(seed); rnd.shuffle(items): in place.
ShuffleInPlace(h, seed, entropy) ==
    LET x == shuffle(h.items, Len(h.items), Random(seed, entropy))
    IN  [h EXCEPT !.items = x, !.files = IF h.same THEN x ELSE @]

\* _pick, _pick_dict and _pick_tuples: what is returned (items[:limit] is a
\* new list again) and what the caller's list holds afterwards.
PickFrame(files, limit, doShuffle, seed, entropy) ==
    LET h0 == list_copy(files)
        h1 == IF doShuffle THEN ShuffleInPlace(h0, seed, entropy) ELSE h0
    IN  [result |-> Truncate(h1.items, limit), arg |-> h1.files]

\* _filter_by_genre and _filter_items_by_genre read their list in a for
\* loop and append to a list of their own (or return the list they got).
FilterFrame(list, result) == [result |-> result, arg |-> list]

FrameArgs(fn, list, limit, doShuffle, seed, entropy, genre, csv) ==
    [fn |-> fn,
     args |-> [list |-> list, limit |-> limit, shuffle |-> doShuffle,
               seed |-> seed, entropy |-> entropy, genre |-> genre, csv |-> csv],
     out |-> Pending]

FrameCallInit ==
    \/ \E fn \in {"_pick", "_pick_dict", "_pick_tuples"}, n \in 0..MaxItems,
          limit \in 1..MaxLimit, doShuffle \in BOOLEAN,
          seed \in {None} \cup 0..MaxSeed, entropy \in 0..MaxEntropy :
           call = FrameArgs(fn, Ids(n), limit, doShuffle, seed, entropy,
                            NoGenre, <<>>)
    \/ \E items \in ItemLists, genre \in ItemTerms :
           call = FrameArgs("_filter_items_by_genre", items, 0, FALSE, None, 0,
                            genre, <<>>)
    \/ \E csv \in SeqsUpTo(MapRows, MaxMapRows),
          genre \in GenreTerms \cup {NoGenre} :
           call = FrameArgs("_filter_by_genre", GenFiles, 0, FALSE, None, 0,
                            genre, csv)

FramePick ==
    /\ call.fn \in {"_pick", "_pick_dict", "_pick_tuples"} /\ call.out = Pending
    /\ "list" \in DOMAIN call.args
    /\ call' = [call EXCEPT !.out =
                   PickFrame(call.args.list, call.args.limit, call.args.shuffle,
                             call.args.seed, call.args.entropy)]
    /\ UNCHANGED notCall

FrameFilterItems ==
    /\ call.fn = "_filter_items_by_genre" /\ call.out = Pending
    /\ "list" \in DOMAIN call.args
    /\ call' = [call EXCEPT !.out =
                   FilterFrame(call.args.list,
                       _filter_items_by_genre(call.args.list, call.args.genre))]
    /\ UNCHANGED notCall

FrameFilterFiles ==
    /\ call.fn = "_filter_by_genre" /\ call.out = Pending
    /\ call' = [call EXCEPT !.out =
                   FilterFrame(call.args.list,
                       _filter_by_genre(call.args.list, call.args.genre,
                                        _load_genre_map(call.args.csv)))]
    /\ UNCHANGED notCall

(***************************************************************************)
(* build_power_hour, the crossfade branch: the clips on a timeline.  Times *)
(* are whole ticks; durs are the durations of the trimmed clips.           *)
(***************************************************************************)
Max2(a, b) == IF a >= b THEN a ELSE b
Min2(a, b) == IF a <= b THEN a ELSE b

RECURSIVE TimelineLoop(_, _, _, _, _)
\* for idx, c in enumerate(clips): timeline_clips.append(cc.set_start(start));
\* start += step.  Gives the starts and the value of start after the loop.
TimelineLoop(durs, idx, start, step, starts) ==
    IF idx > Len(durs) THEN [starts |-> starts, start |-> start]
    ELSE TimelineLoop(durs, idx + 1, start + step, step, Append(starts, start))

Timeline(durs, clip_seconds, crossfade) ==
    LET step == Max2(0, clip_seconds - crossfade)
        loop == TimelineLoop(durs, 1, 0, step, <<>>)
    IN  [starts   |-> loop.starts,
         ends     |-> [i \in 1..Len(durs) |-> loop.starts[i] + durs[i]],
         duration |-> loop.start + durs[Len(durs)]]

TimelineCallInit ==
    \E n \in 1..MaxClips, clip_seconds \in 1..MaxClipSeconds,
       crossfade \in 1..MaxCrossfade :
        \E durs \in [1..n -> 0..clip_seconds] :
            call = [fn |-> "build_power_hour",
                    args |-> [durs |-> durs, clip_seconds |-> clip_seconds,
                              crossfade |-> crossfade],
                    out |-> Pending]

ComposeTimeline ==
    /\ call.fn = "build_power_hour" /\ call.out = Pending
    /\ call' = [call EXCEPT !.out =
                   Timeline(call.args.durs, call.args.clip_seconds,
                            call.args.crossfade)]
    /\ UNCHANGED notCall

(***************************************************************************)
(* _load_and_trim: the window cut from one source.  Times are ticks of     *)
(* 0.005 s, so that the margin of 0.01 s is two ticks.                     *)
(***************************************************************************)
Margin == 2          \* 0.01
HalfSecond == 100    \* 0.5

\* A window whose end is not held to the source's duration.
BadLoadAndTrim(duration, start_offset, clip_seconds) ==
    LET start == Max2(0, Min2(start_offset, Max2(0, duration - Margin)))
    IN  [start |-> start, end |-> start + clip_seconds]

_load_and_trim(duration, start_offset, clip_seconds) ==
    LET start == Max2(0, Min2(start_offset, Max2(0, duration - Margin)))
        end   == Min2(duration, start + clip_seconds)
    IN  [start |-> start,
         end   |-> IF end <= start
                   THEN Min2(duration, start + Max2(HalfSecond, clip_seconds))
                   ELSE end]

TrimCallInit ==
    \E duration \in 0..MaxDuration, start_offset \in 0..MaxStartOffset,
       clip_seconds \in 1..MaxTrimSeconds :
        call = [fn |-> "_load_and_trim",
                args |-> [duration |-> duration, start_offset |-> start_offset,
                          clip_seconds |-> clip_seconds],
                out |-> Pending]

LoadAndTrim ==
    /\ call.fn = "_load_and_trim" /\ call.out = Pending
    /\ call' = [call EXCEPT !.out =
                   _load_and_trim(call.args.duration, call.args.start_offset,
                                  call.args.clip_seconds)]
    /\ UNCHANGED notCall

(***************************************************************************)
(* validate_playlist.py: validate_csv going through the rows of a playlist *)
(* and check_video asking YouTube about each.  A row is its id and title   *)
(* cells, empty or not; what YouTube answers is the reply.                 *)
(***************************************************************************)
PlaylistRows == [id : {"", "v"}, title : {"", "t"}]

\* What the oEmbed request gives: an HTTPError or another exception, or a
\* title and author in which the tests of check_video find what they find.
Replies ==
    [raises : BOOLEAN, wrong_artist : BOOLEAN, few_common : BOOLEAN,
     audio_album_cover_topic : BOOLEAN, unrelated : BOOLEAN]

\* check_video: the severity of its result.
check_video(reply) ==
    IF reply.raises THEN "error"
    ELSE LET s1 == IF reply.wrong_artist THEN "error" ELSE "ok"
             s2 == IF reply.few_common /\ s1 # "error" THEN "warning" ELSE s1
             s3 == IF reply.audio_album_cover_topic /\ s2 = "ok"
                   THEN "warning" ELSE s2
         IN  IF reply.unrelated THEN "error" ELSE s3

CountSeverity(issues, severity) ==
    Cardinality({k \in 1..Len(issues) : issues[k].severity = severity})

\* The summary: ok = len(rows) - len(issues).
Summary(rows, issues) ==
    [checked  |-> Len(rows),
     ok       |-> Len(rows) - Len(issues),
     warnings |-> CountSeverity(issues, "warning"),
     errors   |-> CountSeverity(issues, "error")]

ValidateCallInit ==
    \E rows \in SeqsUpTo(PlaylistRows, MaxPlaylistRows),
       max_videos \in 0..MaxPlaylistRows :
        call = [fn |-> "validate_csv",
                args |-> [rows |-> rows, max_videos |-> max_videos],
                out |-> Pending]

\* rows = list(reader); if max_videos: rows = rows[:max_videos]
ValidateBegin ==
    /\ call.fn = "validate_csv" /\ call.out = Pending
    /\ call' = [call EXCEPT !.out =
                   [kind |-> "running", idx |-> 1,
                    rows |-> Truncate(call.args.rows, call.args.max_videos),
                    issues |-> <<>>, printed |-> <<>>]]
    /\ UNCHANGED notCall

\* One turn of the loop over the rows: a row without id or title is
\* reported and skipped, any other is checked and printed with its status.
ValidateRow ==
    /\ call.fn = "validate_csv" /\ call.out.kind = "running"
    /\ call.out.idx <= Len(call.out.rows)
    /\ LET o == call.out
           row == o.rows[o.idx]
       IN  IF row.id = "" \/ row.title = ""
           THEN call' = [call EXCEPT !.out.idx = o.idx + 1,
                             !.out.printed = Append(o.printed,
                                 [idx |-> o.idx, status |-> "missing"])]
           ELSE \E reply \in Replies :
                  LET severity == check_video(reply)
                  IN  call' = [call EXCEPT !.out.idx = o.idx + 1,
                          !.out.issues =
                              IF severity \in {"error", "warning"}
                              THEN Append(o.issues,
                                          [idx |-> o.idx, severity |-> severity])
                              ELSE o.issues,
                          !.out.printed = Append(o.printed,
                              [idx |-> o.idx, status |-> severity])]
    /\ UNCHANGED notCall

ValidateSummary ==
    /\ call.fn = "validate_csv" /\ call.out.kind = "running"
    /\ call.out.idx > Len(call.out.rows)
    /\ call' = [call EXCEPT !.out =
                   [kind |-> "summary", rows |-> call.out.rows,
                    printed |-> call.out.printed,
                    summary |-> Summary(call.out.rows, call.out.issues)]]
    /\ UNCHANGED notCall

(***************************************************************************)
(* _write_youtube_html: the items written as the JavaScript array literals *)
(* of the page, and the arrays the browser reads back from them.           *)
(***************************************************************************)
Quote == "'"
Backslash == "\\"
\* The six characters \u0027 after a backslash, as one piece of text.
U0027 == "u0027"

\* vid.replace("'", "")
RECURSIVE DropQuotes(_)
DropQuotes(t) ==
    IF t = <<>> THEN <<>>
    ELSE (IF Head(t) = Quote THEN <<>> ELSE <<Head(t)>>) \o DropQuotes(Tail(t))

\* title.replace("'", "\\u0027")
RECURSIVE EscapeQuotes(_)
EscapeQuotes(t) ==
    IF t = <<>> THEN <<>>
    ELSE (IF Head(t) = Quote THEN <<Backslash, U0027>> ELSE <<Head(t)>>)
         \o EscapeQuotes(Tail(t))

\* ",".join("'" + x + "'" for x in texts)
RECURSIVE JoinQuoted(_)
JoinQuoted(texts) ==
    IF texts = <<>> THEN <<>>
    ELSE <<Quote>> \o Head(texts) \o <<Quote>>
         \o (IF Len(texts) > 1 THEN <<",">> ELSE <<>>) \o JoinQuoted(Tail(texts))

\* str(max(0.0, float(s))) as JavaScript reads it: the number, but inf is
\* written "inf", a name the script does not define.
StartJs(x) ==
    CASE x.kind = "inf" -> Inf
      [] x.kind = "-inf" -> Float(0)
      [] OTHER -> Float(Max(0, x.val))

\* What JavaScript makes of the elements of [ ... ] written as text: the
\* strings, or SyntaxError. Within quotes a backslash takes the next
\* character with it (\u0027 is a quote, \' a quote, \\ a backslash);
\* between strings there is exactly one comma.
SyntaxError == [ok |-> FALSE, strings |-> <<>>]
Parsed(out) == [ok |-> TRUE, strings |-> out]
Unescaped(c) == IF c = U0027 THEN Quote ELSE c
RECURSIVE JsStrings(_, _, _, _)
JsStrings(text, inside, cur, out) ==
    IF text = <<>>
    THEN IF inside THEN SyntaxError ELSE Parsed(out)
    ELSE LET c == Head(text)
         IN  IF inside
             THEN IF c = Backslash
                  THEN IF Len(text) < 2 THEN SyntaxError
                       ELSE JsStrings(Tail(Tail(text)), TRUE,
                                      Append(cur, Unescaped(text[2])), out)
                  ELSE IF c = Quote
                  THEN IF Len(text) = 1 THEN Parsed(Append(out, cur))
                       ELSE IF text[2] = "," /\ Len(text) > 2
                       THEN JsStrings(Tail(Tail(text)), FALSE, <<>>,
                                      Append(out, cur))
                       ELSE SyntaxError
                  ELSE JsStrings(Tail(text), TRUE, Append(cur, c), out)
             ELSE IF c = Quote THEN JsStrings(Tail(text), TRUE, <<>>, out)
                  ELSE SyntaxError

Column(items, field) == [i \in 1..Len(items) |-> items[i][field]]

\* The three array literals of the page.
ids_js(items) ==
    JoinQuoted([i \in 1..Len(items) |-> DropQuotes(items[i].id)])
titles_js(items) ==
    JoinQuoted([i \in 1..Len(items) |-> EscapeQuotes(items[i].title)])
starts_js(items) == [i \in 1..Len(items) |-> StartJs(items[i].start)]

\* The page as the browser has it after running the script's first lines:
\* the three arrays, or the error that stops the script.
_write_youtube_html(items) ==
    LET ids == JsStrings(ids_js(items), FALSE, <<>>, <<>>)
        titles == JsStrings(titles_js(items), FALSE, <<>>, <<>>)
    IN  IF ~ids.ok \/ ~titles.ok
        THEN [script |-> "SyntaxError", VIDEO_IDS |-> <<>>, VIDEO_TITLES |-> <<>>,
              VIDEO_STARTS |-> <<>>]
        ELSE IF \E i \in 1..Len(items) : StartJs(items[i].start) = Inf
        THEN [script |-> "ReferenceError", VIDEO_IDS |-> <<>>,
              VIDEO_TITLES |-> <<>>, VIDEO_STARTS |-> <<>>]
        ELSE [script |-> "loaded", VIDEO_IDS |-> ids.strings,
              VIDEO_TITLES |-> titles.strings,
              VIDEO_STARTS |-> starts_js(items)]

\* The items written: ids and titles with and without a quote or a
\* backslash, starts finite or not.
HtmlIds == {<<"a">>, <<"b", Quote>>}
HtmlTitles == {<<>>, <<"T">>, <<"T", Quote, "s">>, <<"T", Backslash>>}
HtmlStarts == {Float(0), Float(3), Inf}
HtmlItems == [id : HtmlIds, title : HtmlTitles, start : HtmlStarts]

HtmlCallInit ==
    \E items \in SeqsUpTo(HtmlItems, MaxHtmlItems) \ {<<>>} :
        call = [fn |-> "_write_youtube_html", args |-> items, out |-> Pending]

WriteYoutubeHtml ==
    /\ call.fn = "_write_youtube_html" /\ call.out = Pending
    /\ call' = [call EXCEPT !.out = _write_youtube_html(call.args)]
    /\ UNCHANGED notCall

(***************************************************************************)
(* The generated player: the script of the HTML page build_youtube_html    *)
(* writes, and the YouTube player it drives. player.getCurrentTime() gives *)
(* the time the YouTube player last reported: after loadVideoById it is    *)
(* that of the video before until the player reports the new one.          *)
(***************************************************************************)
\* --clip-seconds has min=5.0: ten ticks.
MinClipTicks == 10
\* elapsed < TITLE_REVEAL_DELAY + 0.5: one tick.
RevealTicks == 1
\* A video long enough for every clip of the model.
LongTicks == MaxStartTicks + MaxClipTicks + 1
NoVideo == None
NoOverlay == [idx |-> NoVideo, shown |-> FALSE]

\* The page as the browser opens it: let currentIndex = 0; let player = null;
\* let checkInterval = null; and nothing in the overlay.  checkInterval says
\* whether the variable holds a handle, intervals how many intervals of the
\* browser are active.
Page(n, clip, delay, starts, durs) ==
    [phase |-> "no player", n |-> n, clip |-> clip, delay |-> delay,
     starts |-> starts, durs |-> durs,
     currentIndex |-> 0, checkInterval |-> FALSE, intervals |-> 0,
     overlay |-> NoOverlay,
     video |-> NoVideo, pending |-> NoVideo, time |-> 0, state |-> "none",
     op |-> "open"]

Pages ==
    {Page(n, clip, delay, starts, durs) :
        n \in 1..MaxVideos, clip \in MinClipTicks..MaxClipTicks,
        delay \in {0, SomeDelayTicks} \cup MinClipTicks..MaxClipTicks,
        starts \in [1..MaxVideos -> {0, MaxStartTicks}],
        durs \in [1..MaxVideos -> {ShortTicks, LongTicks}]}

\* The pages of n videos: what is said of the videos beyond n is kept fixed.
PlyInit ==
    \E p \in Pages :
        /\ \A i \in (p.n + 1)..MaxVideos : p.starts[i] = 0 /\ p.durs[i] = LongTicks
        /\ ply = p

\* Number(VIDEO_STARTS[currentIndex] || 0)
StartOf(p) == p.starts[p.currentIndex + 1]

\* updateStatus(showTitle): the overlay names the current clip, its title
\* hidden unless showTitle.
updateStatus(p, showTitle) ==
    [p EXCEPT !.overlay = [idx |-> p.currentIndex, shown |-> showTitle]]

\* if (checkInterval) { clearInterval(checkInterval); checkInterval = null; }
clearTimers(p) ==
    [p EXCEPT !.checkInterval = FALSE,
              !.intervals = IF p.checkInterval THEN @ - 1 ELSE @]

\* A playCurrent that sets its interval without clearing the one it holds.
BadPlayCurrent(p) ==
    IF p.phase # "ready" THEN p
    ELSE [updateStatus(p, p.delay <= 0) EXCEPT
              !.pending = p.currentIndex, !.state = "loading",
              !.checkInterval = TRUE, !.intervals = p.intervals + 1]

\* playCurrent(): nothing without a player; a player that is not ready has
\* no loadVideoById, and the TypeError ends the handler there.
playCurrent(p) ==
    IF p.phase # "ready" THEN p
    ELSE LET q == clearTimers(p)
         IN  [updateStatus(q, q.delay <= 0) EXCEPT
                  !.pending = q.currentIndex, !.state = "loading",
                  !.checkInterval = TRUE, !.intervals = q.intervals + 1]

nextClip(p) ==
    playCurrent([clearTimers(p) EXCEPT
                     !.currentIndex = (p.currentIndex + 1) % p.n])

prevClip(p) ==
    playCurrent([clearTimers(p) EXCEPT
                     !.currentIndex = (p.currentIndex - 1 + p.n) % p.n])

\* checkPlaybackTime(): elapsed is computed once, from the time the player
\* gives and the start of the current clip, and used for both tests.
Elapsed(p) == p.time - StartOf(p)
Advances(p) == p.phase = "ready" /\ Elapsed(p) >= p.clip
checkPlaybackTime(p) ==
    IF p.phase # "ready" THEN p
    ELSE LET elapsed == Elapsed(p)
             after == IF elapsed >= p.clip THEN nextClip(p) ELSE p
         IN  IF p.delay > 0 /\ elapsed >= p.delay
                  /\ elapsed < p.delay + RevealTicks
             THEN updateStatus(after, TRUE)
             ELSE after

Did(p, op) == [p EXCEPT !.op = op]

\* onYouTubeIframeAPIReady(): player = new YT.Player(...) with the current
\* video cued.
OnYouTubeIframeAPIReady ==
    /\ ply.phase = "no player"
    /\ ply' = Did([ply EXCEPT !.phase = "created", !.video = ply.currentIndex,
                               !.state = "cued"], "api ready")
    /\ UNCHANGED notPly

\* onPlayerReady()
OnPlayerReady ==
    /\ ply.phase = "created"
    /\ ply' = Did(updateStatus([ply EXCEPT !.phase = "ready"], ply.delay <= 0),
                  "ready")
    /\ UNCHANGED notPly

ClickPlay ==
    /\ ply.phase # "no page"
    /\ ply' = Did(playCurrent(ply), "play")
    /\ UNCHANGED notPly

\* clearTimers(); if (player) player.pauseVideo();
ClickPause ==
    /\ ply.phase # "no page"
    /\ ply' = Did([clearTimers(ply) EXCEPT
                       !.state = IF ply.phase = "ready"
                                      /\ ply.state \in {"playing", "loading"}
                                 THEN "paused" ELSE ply.state],
                  "pause")
    /\ UNCHANGED notPly

ClickNext ==
    /\ ply.phase # "no page"
    /\ ply' = Did(nextClip(ply), "next")
    /\ UNCHANGED notPly

ClickPrev ==
    /\ ply.phase # "no page"
    /\ ply' = Did(prevClip(ply), "prev")
    /\ UNCHANGED notPly

\* A tick of setInterval(checkPlaybackTime, 500).
PollTick ==
    /\ ply.phase # "no page" /\ ply.intervals > 0
    /\ ply' = Did(checkPlaybackTime(ply),
                  IF Advances(ply) THEN "advance" ELSE "poll")
    /\ UNCHANGED notPly

\* The YouTube player has loaded the video asked for and reports its time,
\* the start asked for.
LoadDone ==
    /\ ply.phase # "no page" /\ ply.pending # NoVideo
    /\ ply' = Did([ply EXCEPT
                       !.video = ply.pending, !.pending = NoVideo,
                       !.time = ply.starts[ply.pending + 1],
                       !.state = IF ply.state = "paused" THEN "paused"
                                 ELSE "playing"],
                  "loaded")
    /\ UNCHANGED notPly

\* The YouTube player reports that it has stopped, before the new video.
StopReported ==
    /\ ply.phase # "no page" /\ ply.pending # NoVideo /\ ply.time # 0
    /\ ply' = Did([ply EXCEPT !.time = 0], "stopped")
    /\ UNCHANGED notPly

\* Half a second of the video plays; at its end the player stops there.
TimeAdvance ==
    /\ ply.phase # "no page" /\ ply.pending = NoVideo
    /\ ply.state = "playing"
    /\ ply' = Did([ply EXCEPT
                       !.time = ply.time + 1,
                       !.state = IF ply.time + 1 >= ply.durs[ply.video + 1]
                                 THEN "ended" ELSE "playing"],
                  "played")
    /\ UNCHANGED notPly

\* The first click on Play, of a user who clicks nothing else.
ClickPlayOnce ==
    /\ ply.phase # "no page" /\ ply.state \in {"none", "cued"}
    /\ ClickPlay

\* The references given to the id parser: any pieces after an optional
\* "https://", whitespace around them or not.
RefPieces == Hosts \cup {"/", "/watch", "?v=", "&", IdX, IdQ}
RefBodies == SeqsUpTo(RefPieces, MaxRefLen)
XidRefs ==
    RefBodies \cup {<<Https>> \o b : b \in RefBodies}
        \cup {<<" ">> \o b \o <<" ">> : b \in SeqsUpTo(RefPieces, MaxRefLen - 1)}

XidCallInit ==
    \E fn \in {"_extract_video_id", "extract_video_id"} :
        \E r \in XidRefs : call = [fn |-> fn, args |-> r, out |-> Pending]

\* _extract_video_id(url_or_id) in the CLI: the except clause swallows what
\* urlparse and parse_qs raise, so that the call always returns.
ExtractVideoId ==
    /\ call.fn = "_extract_video_id" /\ call.out = Pending
    /\ call' = [call EXCEPT !.out =
                   [kind |-> "returned", id |-> _extract_video_id(call.args)]]
    /\ UNCHANGED notCall

\* extract_video_id(url_or_id) in scripts/validate_playlist.py.
ExtractVideoIdScript ==
    /\ call.fn = "extract_video_id" /\ call.out = Pending
    /\ call' = [call EXCEPT !.out =
                   [kind |-> "returned", id |-> extract_video_id(call.args)]]
    /\ UNCHANGED notCall

SelNext == (Pick \/ PickDict \/ PickTuples)

InitSelect == SelInit /\ TcIdle /\ GenIdle /\ CmdIdle /\ BldIdle /\ CallIdle /\ PlyIdle

SpecSelect == InitSelect /\ [][SelNext]_vars

InitTimecode == SelIdle /\ TcInit /\ GenIdle /\ CmdIdle /\ BldIdle /\ CallIdle /\ PlyIdle

SpecTimecode == InitTimecode /\ [][TcNext]_vars

GenNext == FilterByGenre

InitGenre == SelIdle /\ TcIdle /\ GenInit /\ CmdIdle /\ BldIdle /\ CallIdle /\ PlyIdle

SpecGenre == InitGenre /\ [][GenNext]_vars

CmdNext == (Plan \/ Build \/ BuildYoutubeHtml)

InitCmd == SelIdle /\ TcIdle /\ GenIdle /\ CmdIdle /\ BldIdle /\ CallIdle /\ PlyIdle

SpecCmd == InitCmd /\ [][CmdNext]_vars

TimingNext == BuildYoutubeHtmlOneRow

SpecTiming == InitCmd /\ [][TimingNext]_vars

CsvNext == ReadYoutubeCsv

InitCsv == SelIdle /\ TcIdle /\ GenIdle /\ CmdIdle /\ BldIdle /\ CsvCallInit /\ PlyIdle

SpecCsv == InitCsv /\ [][CsvNext]_vars

XidNext == ExtractVideoId \/ ExtractVideoIdScript

InitXid == SelIdle /\ TcIdle /\ GenIdle /\ CmdIdle /\ BldIdle /\ XidCallInit /\ PlyIdle

SpecXid == InitXid /\ [][XidNext]_vars

FrameNext == FramePick \/ FrameFilterItems \/ FrameFilterFiles

InitFrame == SelIdle /\ TcIdle /\ GenIdle /\ CmdIdle /\ BldIdle /\ FrameCallInit /\ PlyIdle

SpecFrame == InitFrame /\ [][FrameNext]_vars

TimelineNext == ComposeTimeline

InitTimeline == SelIdle /\ TcIdle /\ GenIdle /\ CmdIdle /\ BldIdle /\ TimelineCallInit /\ PlyIdle

SpecTimeline == InitTimeline /\ [][TimelineNext]_vars

TrimNext == LoadAndTrim

InitTrim == SelIdle /\ TcIdle /\ GenIdle /\ CmdIdle /\ BldIdle /\ TrimCallInit /\ PlyIdle

SpecTrim == InitTrim /\ [][TrimNext]_vars

ValidateNext == ValidateBegin \/ ValidateRow \/ ValidateSummary

InitValidate == SelIdle /\ TcIdle /\ GenIdle /\ CmdIdle /\ BldIdle /\ ValidateCallInit /\ PlyIdle

SpecValidate == InitValidate /\ [][ValidateNext]_vars

HtmlNext == WriteYoutubeHtml

InitHtml == SelIdle /\ TcIdle /\ GenIdle /\ CmdIdle /\ BldIdle /\ HtmlCallInit /\ PlyIdle

SpecHtml == InitHtml /\ [][HtmlNext]_vars

ItemsNext == FilterItemsByGenre

InitItems == SelIdle /\ TcIdle /\ GenIdle /\ CmdIdle /\ BldIdle /\ ItemsCallInit /\ PlyIdle

SpecItems == InitItems /\ [][ItemsNext]_vars

ScanNext == ScanDir

InitScan == SelIdle /\ TcIdle /\ GenIdle /\ CmdIdle /\ BldIdle /\ ScanCallInit /\ PlyIdle

SpecScan == InitScan /\ [][ScanNext]_vars

PlayerNext ==
    \/ OnYouTubeIframeAPIReady \/ OnPlayerReady
    \/ ClickPlay \/ ClickPause \/ ClickNext \/ ClickPrev
    \/ PollTick \/ LoadDone \/ StopReported \/ TimeAdvance

InitPlayer ==
    SelIdle /\ TcIdle /\ GenIdle /\ CmdIdle /\ BldIdle /\ CallIdle /\ PlyInit

SpecPlayer == InitPlayer /\ [][PlayerNext]_vars

\* The page left to play by itself after one click on Play: the interval
\* ticks, the player loads what it is asked for and the video plays on.
AutoNext ==
    \/ OnYouTubeIframeAPIReady \/ OnPlayerReady \/ ClickPlayOnce
    \/ PollTick \/ LoadDone \/ StopReported \/ TimeAdvance

SpecAutoplay ==
    /\ InitPlayer /\ [][AutoNext]_vars
    /\ WF_vars(OnYouTubeIframeAPIReady) /\ WF_vars(OnPlayerReady)
    /\ WF_vars(PollTick) /\ WF_vars(LoadDone) /\ WF_vars(TimeAdvance)

BldNext ==
    \/ BldBegin \/ BldProbeFirst \/ BldOpen \/ BldTrim \/ BldResize
    \/ BldFade \/ BldCompose \/ BldWrite \/ BldClose \/ BldFinally

InitBuild == SelIdle /\ TcIdle /\ GenIdle /\ CmdIdle /\ BldInit /\ CallIdle /\ PlyIdle

SpecBuild == InitBuild /\ [][BldNext]_vars

(***************************************************************************)
(* Claims about selection.                                                 *)
(***************************************************************************)
PickFns == {"_pick", "_pick_dict", "_pick_tuples"}

\* C1: with shuffle=True and a non-null seed, every call of the same
\* selection function on the same items with the same limit and seed returns
\* the same list: no two different results are ever observed.
C1_SeedDeterminism ==
    (selIn.shuffle /\ selIn.seed # None) =>
        \A a, b \in selOuts : a.fn = b.fn => a.out = b.out

\* C1 witness: a seeded shuffle of several candidates was called for each of
\* the three functions and the order it returned is not the input order.
C1_Witness ==
    /\ selIn.shuffle /\ selIn.seed # None /\ selIn.n >= 3
    /\ {o.fn : o \in selOuts} = PickFns
    /\ \E o \in selOuts : o.out # SubSeq(Ids(selIn.n), 1, Len(o.out))

\* C2: every result has exactly limit items when limit <= len(items) and all
\* len(items) items otherwise, so never more than limit.
C2_ResultLength ==
    \A o \in selOuts :
        /\ selIn.limit <= selIn.n => Len(o.out) = selIn.limit
        /\ selIn.limit > selIn.n => Len(o.out) = selIn.n
        /\ Len(o.out) <= selIn.limit

\* C2 witness: both cases were exercised by all three functions: here the
\* limit cut a longer list.
C2_Witness ==
    /\ selIn.limit < selIn.n
    /\ {o.fn : o \in selOuts} = PickFns
    /\ \E o \in selOuts : Len(o.out) = selIn.limit

\* C5: with shuffle=True the result is the first min(limit, len) elements of
\* one permutation of all the candidates: no candidate occurs twice in it,
\* each element is a candidate, and it has min(limit, len) elements.
C5_PermutationPrefix ==
    selIn.shuffle =>
        \A o \in selOuts :
            /\ NoDup(o.out)
            /\ Range(o.out) \subseteq 1..selIn.n
            /\ Len(o.out) = Min(selIn.limit, selIn.n)

\* C5 witness: a shuffled selection returned a candidate that lies beyond the
\* first limit positions of the input.
C5_Witness ==
    /\ selIn.shuffle
    /\ \E o \in selOuts : \E k \in 1..Len(o.out) : o.out[k] > selIn.limit

(***************************************************************************)
(* Claims about timestamps.                                                *)
(***************************************************************************)
\* The fields of tcIn, when each is a string of digits (else <<>>).
TcFields ==
    LET parts == split(strip(tcIn), ":")
    IN  IF \A i \in 1..Len(parts) : IsDigits(parts[i]) THEN parts ELSE <<>>

\* C8 (as claimed): _parse_timecode never raises: it returns a number of
\* seconds or None. S gives S, M:S gives 60*M+S, H:M:S gives 3600*H+60*M+S,
\* and the empty string and more than three fields give None.
C8_NeverRaises ==
    tcOut # NotCalled =>
        /\ tcOut.kind \in {"float", "inf", "-inf", "None"}
        /\ strip(tcIn) = <<>> => tcOut = NoneVal
        /\ Len(TcFields) > 3 => tcOut = NoneVal
        /\ (Len(TcFields) \in 1..3 /\
            \A i \in 1..Len(TcFields) : ~IntOfDigits(TcFields[i]).huge) =>
               tcOut = Float(
                   CASE Len(TcFields) = 1 -> Decimal(StripZeros(TcFields[1]))
                     [] Len(TcFields) = 2 ->
                            60 * Decimal(StripZeros(TcFields[1]))
                            + Decimal(StripZeros(TcFields[2]))
                     [] Len(TcFields) = 3 ->
                            3600 * Decimal(StripZeros(TcFields[1]))
                            + 60 * Decimal(StripZeros(TcFields[2]))
                            + Decimal(StripZeros(TcFields[3])))

(***************************************************************************)
(* Claims about the commands.                                              *)
(***************************************************************************)
\* A run that got as far as selecting clips.
Selected == run.cmd # "none" /\ run.filtered # <<>>

\* C3 (as claimed): in plan, build and build-youtube-html, when fewer
\* candidates than --limit are left after filtering, all of them are kept,
\* a warning that fewer than requested were found is surfaced, and the run
\* goes on to its output.
C3_FewerWarns ==
    (Selected /\ Len(run.filtered) < run.args.limit) =>
        /\ Len(run.picked) = Len(run.filtered)
        /\ Range(run.picked) = Range(run.filtered)
        /\ WarnFewer \in run.warnings
        /\ run.error \notin {ErrNoInput, ErrNoFiles, ErrNoRows}

\* C4: without shuffling, the selection of every command is the first
\* min(limit, len) candidates in resolution order (a prefix of the filtered
\* candidate list).
C4_UnshuffledPrefix ==
    (Selected /\ ~run.args.shuffle) =>
        run.picked = SubSeq(run.filtered, 1,
                            Min(run.args.limit, Len(run.filtered)))

\* C4 witness: the directory a.mp4, b.mp4, c.mov scanned with *.mp4, limit 2,
\* no shuffle, gives [a.mp4, b.mp4].
C4_Witness ==
    /\ run.cmd = "plan" /\ run.mode = "dir" /\ ~run.args.shuffle
    /\ run.args.dir = {Entry(PathA, PathA), Entry(PathB, PathB), Entry(PathC, PathC)}
    /\ run.args.pattern = <<Piece(GlobMp4)>>
    /\ run.args.genre = NoGenre
    /\ run.args.limit = 2
    /\ run.picked = <<PathA, PathB>>

\* C6 (as claimed): the candidate list of source resolution holds no
\* reference twice, in directory, playlist, URL-list and CSV mode.
C6_NoDuplicateRefs ==
    run.cmd # "none" => NoDup(run.refs)

\* The lines of a playlist or URL list that name a reference.
RefLines(lines) == {i \in 1..Len(lines) : lines[i].kind \in {"path", "ref"}}

\* C6 (amended): a directory scan lists no resolved path twice; a playlist
\* and a URL list give one candidate per line that names a reference, and a
\* CSV one per row with an id or a url, repeated ones included.
C6_ScanUniqueOthersPerLine ==
    /\ run.mode = "dir" =>
           /\ NoDup(run.refs)
           /\ Range(run.refs) \subseteq {e.real : e \in run.args.dir}
    /\ run.mode = "playlist" =>
           Len(run.refs) = Cardinality(RefLines(run.args.playlist))
    /\ run.mode = "file" =>
           Len(run.refs) = Cardinality(RefLines(run.args.lines))
    /\ run.mode = "csv" =>
           Len(run.refs) = Cardinality({i \in 1..Len(run.args.csv) :
               run.args.csv[i].id # <<>> \/ run.args.csv[i].url # <<>>})

\* C6 witness: a scan whose patterns match a.mp4 twice (*.mp4 and a*) and
\* its link s.mp4 lists a.mp4 once.
C6_Witness ==
    /\ run.mode = "dir"
    /\ Entry(PathS, PathA) \in run.args.dir
    /\ run.args.pattern = <<Piece(GlobMp4), BlankPiece, Piece(GlobA)>>
    /\ PathA \in Range(run.refs)
    /\ NoDup(run.refs)

\* The row items build_youtube_html went through to write its output: the
\* picked ones with a non-empty id.
Written == SelectSeq(run.picked, LAMBDA r : r.id # <<>>)

\* C7: every row written by build-youtube-html has the start: max(0, chorus -
\* pre_chorus) if it has a chorus time, else max(0, start) if it has a start
\* time, else default_start; a digit-string start without a chorus gives
\* that integer; every start is >= 0.
C7_StartPriority ==
    (run.cmd = "build_youtube_html" /\ run.mode = "csv" /\ run.emitted) =>
        /\ Len(run.artifact) = Len(Written)
        /\ \A i \in 1..Len(Written) :
              LET r == Written[i]
                  got == run.artifact[i].start
              IN  /\ got.kind = "inf" \/ (got.kind = "float" /\ got.val >= 0)
                  /\ r.chorus.kind = "float" =>
                         got = Float(Max(0, r.chorus.val - run.args.pre_chorus))
                  /\ r.chorus.kind = "inf" => got = Inf
                  /\ r.chorus.kind = "-inf" => got = Float(0)
                  /\ (r.chorus = NoneVal /\ r.start.kind = "float") =>
                         got = Float(Max(0, r.start.val))
                  /\ (r.chorus = NoneVal /\ r.start.kind = "inf") => got = Inf
                  /\ (r.chorus = NoneVal /\ r.start.kind = "-inf") =>
                         got = Float(0)
                  /\ (r.chorus = NoneVal /\ r.start = NoneVal) =>
                         got = Float(run.args.default_start)
        /\ (/\ Len(run.args.csv) = 1
            /\ strip(run.args.csv[1].chorus) = <<>>
            /\ IsDigits(run.args.csv[1].start)
            /\ ~IntOfDigits(run.args.csv[1].start).huge) =>
               run.artifact[1].start =
                   Float(Decimal(StripZeros(run.args.csv[1].start)))

\* C7 witness: a row with chorus "3" and pre_chorus 10 was written with start
\* 0 although its start cell says 13.
C7_Witness ==
    /\ run.cmd = "build_youtube_html" /\ run.mode = "csv" /\ run.emitted
    /\ run.args.pre_chorus = 10
    /\ run.args.csv[1].chorus = <<"3">>
    /\ run.args.csv[1].start = <<"1", "3">>
    /\ run.artifact[1].start = Float(0)

\* A --genre was given to build-youtube-html with --urls-csv.
CsvGenreRun ==
    /\ run.cmd = "build_youtube_html" /\ run.mode = "csv"
    /\ run.args.genre # NoGenre /\ run.args.genre # <<>>

RunTerm == lower(strip(run.args.genre))

\* Whether a candidate of the run satisfies the run's genre filter.
SatisfiesFilter(x) ==
    IF run.mode = "csv" THEN MatchesGenre(x, RunTerm)
    ELSE KeepsFile(x, RunTerm, _load_genre_map(run.args.csv))

\* A run that applied a genre filter: --genre was given, to plan or build, or
\* to build-youtube-html with a CSV that has genre values.
FilterApplied ==
    /\ run.cmd # "none" /\ run.mode \in {"playlist", "dir", "csv"}
    /\ run.args.genre # NoGenre /\ run.args.genre # <<>>
    /\ run.mode = "csv" => WarnNoGenreData \notin run.warnings

\* C11: resolution, then genre filtering, then selection: when a genre filter
\* is applied, every selected item satisfies it, and the number selected is
\* min(limit, number of resolved candidates that satisfy it), so exactly
\* limit when at least limit candidates match.
C11_FilterThenSelect ==
    FilterApplied =>
        LET matching == SelectSeq(run.read, SatisfiesFilter)
        IN  /\ \A i \in 1..Len(run.picked) : SatisfiesFilter(run.picked[i])
            /\ Len(run.picked) = Min(run.args.limit, Len(matching))
            /\ Len(matching) >= run.args.limit =>
                   Len(run.picked) = run.args.limit
            /\ ~run.args.shuffle =>
                   run.picked = SubSeq(matching, 1, Len(run.picked))

\* C11 witness: the playlist b.mp4, rk/d.mp4 filtered by rk with limit 1: the
\* one selected file is rk/d.mp4, which is not among the first limit lines.
C11_Witness ==
    /\ FilterApplied /\ run.mode = "playlist" /\ ~run.args.shuffle
    /\ run.read = <<PathB, PathD>>
    /\ run.args.limit = 1
    /\ run.picked = <<PathD>>

\* Neither input flag was given.
NoInputFlag == run.mode = "none"

\* The candidate set is empty after filtering.
EmptyAfterFilter == run.mode # "none" /\ run.filtered = <<>>

\* The run reached its emission step: plan printed, build called
\* build_power_hour, build-youtube-html wrote the HTML.
ReachedEmission == run.emitted \/ run.error = "build_power_hour raised"

NoIdSelected ==
    /\ run.cmd = "build_youtube_html" /\ run.mode \in {"csv", "file"}
    /\ \A i \in 1..Len(run.picked) : run.picked[i].id = <<>>

C10_MappedTagKept ==
    genOut.called =>
        \A i \in 1..Len(genIn.csv) :
            (/\ lower(strip(genIn.genre)) \in TagSet(genIn.csv[i].genre)
             /\ genIn.csv[i].path.real \in Range(GenFiles))
            => genIn.csv[i].path.real \in Range(genOut.out)

(***************************************************************************)
(* Claims about build_power_hour.                                          *)
(***************************************************************************)
\* C13 (as claimed): when build_power_hour returns or lets an error go on,
\* every media handle it opened has been closed, whichever step failed.
C13_AllHandlesClosed ==
    bld.pc \in {"returned", "raised"} => bld.opened \subseteq bld.closed

(***************************************************************************)
(* Claims about the readers of YouTube references.                         *)
(***************************************************************************)
\* Whether a row has a non-empty id or url value, and the one that counts.
HasIdOrUrl(row) == strip(row.id) # <<>> \/ strip(row.url) # <<>>
RefCell(row) == IF strip(row.id) # <<>> THEN strip(row.id) ELSE strip(row.url)

\* C14 (as claimed): _read_youtube_csv yields exactly one candidate for each
\* row with a non-empty id or url, in row order, made from the id when both
\* are present, and none for a row lacking both.
C14_OnePerRefRow ==
    (call.fn = "_read_youtube_csv" /\ call.out # Pending) =>
        LET refRows == SelectSeq(call.args, HasIdOrUrl)
        IN  /\ call.out.kind = "returned"
            /\ Len(call.out.rows) = Len(refRows)
            /\ \A i \in 1..Len(refRows) :
                   /\ call.out.rows[i].id = _extract_video_id(RefCell(refRows[i]))
                   /\ call.out.rows[i].title = strip(refRows[i].title)
                   /\ call.out.rows[i].genre = strip(refRows[i].genre)

\* The shapes of a reference: a bare id, a youtu.be URL with an id in its
\* path, a youtube.com URL with an id as its v parameter.
BareId(t) == t # <<>> /\ ~HasUrlChars(t) /\ RefLong(t)
YoutuBeShape(t) == EndsYoutuBe(t) /\ PathId(t) # <<>>
WatchShape(t) == ~EndsYoutuBe(t) /\ EndsYoutubeCom(t) /\ QueryV(t) # <<>>
XidDone == call.fn \in {"_extract_video_id", "extract_video_id"} /\ call.out # Pending

\* C15 (as claimed): the id parser returns a bare id as it is, the id of a
\* youtu.be/<id> or youtube.com/watch?v=<id> reference, and every other
\* reference unchanged after trimming; it never raises and never returns
\* the empty string for a non-empty reference.
C15_ExtractShapes ==
    XidDone =>
        LET t == strip(call.args)
        IN  /\ call.out.kind = "returned"
            /\ BareId(t) => call.out.id = t
            /\ YoutuBeShape(t) => call.out.id = PathId(t)
            /\ WatchShape(t) => call.out.id = QueryV(t)
            /\ ~(BareId(t) \/ YoutuBeShape(t) \/ WatchShape(t)) => call.out.id = t
            /\ t # <<>> => call.out.id # <<>>

\* Apart from a youtu.be URL without a path, the parser does as C15 says.
C15_ExceptEmptyPath ==
    (XidDone /\ ~(EndsYoutuBe(strip(call.args)) /\ PathId(strip(call.args)) = <<>>))
        => C15_ExtractShapes

\* The clip now current has been loaded and has played d ticks past its start.
HasPlayed(p, d) ==
    /\ p.pending = NoVideo /\ p.video = p.currentIndex
    /\ p.time - StartOf(p) >= d

\* C16 (as claimed): the automatic advance away from a clip happens only
\* after that clip has played CLIP_SECONDS past its start, also when a poll
\* runs while the next video is still loading.
C16_AdvanceAfterClip ==
    [][(ply'.op = "advance" /\ ply' # ply) => HasPlayed(ply, ply.clip)]_vars

\* Apart from a poll while a video is loading, no advance comes early.
C16_EarlyOnlyWhileLoading ==
    [][(ply'.op = "advance" /\ ply' # ply /\ ply.pending = NoVideo
            /\ ply.video = ply.currentIndex)
        => HasPlayed(ply, ply.clip)]_vars

Started == ply.phase = "ready" /\ ply.state \notin {"none", "cued"}

\* C17 (as claimed): after Play and with no further click, every clip is
\* eventually followed by an advance to the next one, also a clip whose
\* video ends before CLIP_SECONDS have played.
C17_EveryClipAdvances ==
    \A i \in 0..(MaxVideos - 1) :
        (Started /\ ply.n > 1 /\ ply.currentIndex = i) ~> (ply.currentIndex # i)

\* Clips of videos long enough do advance.
C17_LongClipsAdvance ==
    \A i \in 0..(MaxVideos - 1) :
        (Started /\ ply.n > 1 /\ ply.currentIndex = i
             /\ \A k \in 1..ply.n : ply.durs[k] = LongTicks)
            ~> (ply.currentIndex # i)

\* C18 (as claimed): with a title delay above 0 the title in the overlay is
\* that of a clip that has played the delay past its start; with a delay
\* of 0 the overlay shows the title whenever it names a clip.
C18_TitleAfterDelay ==
    /\ (ply.delay > 0 /\ ply.overlay.shown) => HasPlayed(ply, ply.delay)
    /\ (ply.delay = 0 /\ ply.overlay.idx # NoVideo) => ply.overlay.shown

\* With a title delay of 0 the title is shown from the start.
C18_ShownAtOnce ==
    (ply.delay = 0 /\ ply.overlay.idx # NoVideo) => ply.overlay.shown

\* No stale time is needed for an early title: the poll that advances from
\* a clip that has played its length would have to leave the title hidden.
C18_AdvanceHidesTitle ==
    [][(ply'.op = "advance" /\ ply' # ply /\ HasPlayed(ply, ply.clip))
        => ~(ply'.delay > 0 /\ ply'.overlay.shown)]_vars

ScanDone == call.fn = "_scan_dir" /\ call.out # Pending

\* The resolved paths of the matches of the patterns, one pattern after the
\* other in the order given, the matches of each in path order.
RECURSIVE MatchesInOrder(_, _)
MatchesInOrder(dir, patterns) ==
    IF patterns = <<>> THEN <<>>
    ELSE LET last == patterns[Len(patterns)]
             found == {e \in dir : Matches(last, e.path.name)}
             front == MatchesInOrder(dir, SubSeq(patterns, 1, Len(patterns) - 1))
         IN  front \o [i \in 1..Cardinality(found) |-> sorted(found)[i].real]

\* The positions of s that hold a value for the first time.
FirstSeen(s) == {i \in 1..Len(s) : \A j \in 1..(i - 1) : s[j] # s[i]}

\* C19: the output of _scan_dir lists each distinct resolved path once, in
\* the order of its first appearance in the concatenation, pattern by
\* pattern, of each pattern's sorted matches.
C19_FirstSeenOrder ==
    ScanDone =>
        LET all == MatchesInOrder(call.args.dir, call.args.patterns)
            out == call.out.files
        IN  /\ NoDup(out)
            /\ all # <<>> =>
                   /\ Len(out) = Cardinality(FirstSeen(all))
                   /\ \A m \in FirstSeen(all) :
                          out[Cardinality({i \in FirstSeen(all) : i <= m})] = all[m]

\* a.mp4, matched by *.mp4, by a* and through the link s.mp4, is listed
\* once, at the place *.mp4 gives it.
C19_Witness ==
    /\ ScanDone
    /\ call.args.patterns = <<GlobMp4, GlobA>>
    /\ call.args.dir = {Entry(PathA, PathA), Entry(PathB, PathB), Entry(PathS, PathA)}
    /\ call.out.files = <<PathA, PathB>>

\* The resolved paths of the files some pattern matches, and of the files
\* with a video extension in any case of letters.
PatternMatched(dir, patterns) ==
    {e.real : e \in {f \in dir : \E i \in 1..Len(patterns) :
                                    Matches(patterns[i], f.path.name)}}
VideoFiles(dir) ==
    {e.real : e \in {f \in dir : lower(suffix(f.path.name)) \in VIDEO_EXTS}}

GenTerm == lower(strip(genIn.genre))

\* C21 (as claimed): the mapping takes priority in _filter_by_genre: a file
\* with an entry in the genre map that does not hold the term is not in the
\* result, whatever its name.
C21_MappingFirst ==
    genOut.called =>
        \A i \in 1..Len(GenFiles) :
            (/\ GenFiles[i] \in DOMAIN genOut.map
             /\ GenTerm \notin genOut.map[GenFiles[i]])
            => GenFiles[i] \notin Range(genOut.out)

\* Files with an entry holding the term are kept, files without an entry go
\* by the heuristic alone.
C21_MappedTermKept ==
    genOut.called =>
        \A i \in 1..Len(GenFiles) :
            (/\ GenFiles[i] \in DOMAIN genOut.map
             /\ GenTerm \in genOut.map[GenFiles[i]])
            => GenFiles[i] \in Range(genOut.out)

\* The name of the directory a path lies in: what follows the last "/" of
\* its parent.
ParentName(p) ==
    LET d == p.parent
        slashes == {i \in 1..Len(d) : d[i] = "/"}
        last == CHOOSE i \in slashes : \A j \in slashes : j <= i
    IN  SubSeq(d, last + 1, Len(d))

\* C22 (as claimed): a file without an entry in the genre map is kept if
\* and only if the term is a substring of its name or of the name of the
\* directory it lies in; a term found only higher up the path does not
\* keep it.
C22_NameOrParentName ==
    genOut.called =>
        \A i \in 1..Len(GenFiles) :
            GenFiles[i] \notin DOMAIN genOut.map =>
                (GenFiles[i] \in Range(genOut.out)
                    <=> \/ IsSubstr(GenTerm, lower(GenFiles[i].name))
                        \/ IsSubstr(GenTerm, lower(ParentName(GenFiles[i]))))

\* With the whole path of the parent directory in place of its name, the
\* heuristic is as C22 says.
C22_NameOrParentPath ==
    genOut.called =>
        \A i \in 1..Len(GenFiles) :
            GenFiles[i] \notin DOMAIN genOut.map =>
                (GenFiles[i] \in Range(genOut.out)
                    <=> \/ IsSubstr(GenTerm, lower(GenFiles[i].name))
                        \/ IsSubstr(GenTerm, lower(GenFiles[i].parent)))

ItemsDone == call.fn = "_filter_items_by_genre" /\ call.out # Pending
NoTerm(genre) == genre = NoGenre \/ genre = <<>>

\* The tags of a genre field: lowercased, split on "|", trimmed, the empty
\* ones left out.
Tags(raw) ==
    LET cells == split(lower(raw), "|")
    IN  {strip(cells[i]) : i \in 1..Len(cells)} \ {<<>>}

\* Some tag equals the term or contains it.
TagMatches(tags, g) == \E t \in tags : t = g \/ IsSubstr(g, t)

\* C23 (as claimed): _filter_items_by_genre returns, in input order, exactly
\* the items with a tag equal to or containing the lowercased trimmed term,
\* never an item with an empty genre field, and the whole list when there
\* is no term.
C23_ExactTags ==
    ItemsDone =>
        LET g == lower(strip(call.args.genre))
        IN  call.out.items =
                IF NoTerm(call.args.genre) THEN call.args.items
                ELSE SelectSeq(call.args.items,
                               LAMBDA it : TagMatches(Tags(it.genre), g))

\* The tags as the function takes them: a field that is not empty and has
\* no tag (blanks and pipes only) counts, lowercased, as one tag.
TagsOrField(raw) ==
    IF Tags(raw) = {} /\ raw # <<>> THEN {lower(raw)} ELSE Tags(raw)

\* C23 (amended): as C23, with a non-empty genre field without any tag
\* taken as a single tag.
C23_TagsOrField ==
    ItemsDone =>
        LET g == lower(strip(call.args.genre))
        IN  /\ call.out.items =
                   IF NoTerm(call.args.genre) THEN call.args.items
                   ELSE SelectSeq(call.args.items,
                                  LAMBDA it : TagMatches(TagsOrField(it.genre), g))
            /\ ~NoTerm(call.args.genre) =>
                   \A i \in 1..Len(call.out.items) :
                       call.out.items[i].genre # <<>>

\* The term RK keeps p|RK and " prk |" and drops the item without a genre
\* between them.
C23_Witness ==
    /\ ItemsDone
    /\ call.args.genre = <<" ", "R", "K", " ">>
    /\ call.args.items =
           << [id |-> 1, genre |-> <<"p", "|", "R", "K">>],
              [id |-> 2, genre |-> <<>>],
              [id |-> 3, genre |-> <<" ", "p", "r", "k", " ", "|">>] >>
    /\ call.out.items =
           << [id |-> 1, genre |-> <<"p", "|", "R", "K">>],
              [id |-> 3, genre |-> <<" ", "p", "r", "k", " ", "|">>] >>

BldOver == bld.pc \in {"returned", "raised"}

\* C24: a close() that raises in the cleanup of build_power_hour is
\* swallowed: close() is still called on every clip of the list, the caller
\* gets the error of the build steps and no other, and a build whose steps
\* raised nothing returns.
C24_CleanupSwallowed ==
    BldOver =>
        /\ bld.error = bld.stepError
        /\ bld.pc = "returned" <=> bld.stepError = ""
        /\ bld.j > 0 => Range(bld.clips) \subseteq bld.closed

\* The write fails, then the close of the first clip: the second clip is
\* closed and the caller gets the error of the write.
C24_Witness ==
    /\ bld.pc = "raised" /\ bld.error = "write failed"
    /\ bld.clips = <<1, 2>>
    /\ bld.closeFailed = {1} /\ bld.closed = {1, 2}

HtmlDone == call.fn = "_write_youtube_html" /\ call.out # Pending

\* C25 (as claimed): the page holds VIDEO_IDS, VIDEO_TITLES and
\* VIDEO_STARTS of equal length, one entry for each item written, in
\* order, entry i of the three being the id, the title and the resolved
\* start of item i.
C25_ArraysMatchItems ==
    HtmlDone =>
        /\ call.out.script = "loaded"
        /\ Len(call.out.VIDEO_IDS) = Len(call.args)
        /\ Len(call.out.VIDEO_TITLES) = Len(call.args)
        /\ Len(call.out.VIDEO_STARTS) = Len(call.args)
        /\ \A i \in 1..Len(call.args) :
               /\ call.out.VIDEO_IDS[i] = DropQuotes(call.args[i].id)
               /\ call.out.VIDEO_TITLES[i] = call.args[i].title
               /\ call.out.VIDEO_STARTS[i] = call.args[i].start

\* Without a backslash in a title and with finite starts the arrays are as
\* C25 says (the ids without their quotes).
C25_PlainItemsMatch ==
    (/\ HtmlDone
     /\ \A i \in 1..Len(call.args) :
            /\ Backslash \notin Range(call.args[i].title)
            /\ call.args[i].start.kind = "float")
    => C25_ArraysMatchItems

\* What build_youtube_html hands to _write_youtube_html: one item for each
\* selected row or line with a non-empty id, in selection order, with the
\* start resolved for it (default_start in --urls-file mode).
C25_ItemsInOrder ==
    (run.cmd = "build_youtube_html" /\ run.emitted) =>
        LET kept == SelectSeq(run.picked, LAMBDA r : r.id # <<>>)
        IN  /\ Len(run.artifact) = Len(kept)
            /\ \A i \in 1..Len(kept) :
                   /\ run.artifact[i].id = kept[i].id
                   /\ run.artifact[i].title = kept[i].title
                   /\ run.artifact[i].start =
                          IF run.mode = "file" THEN Float(run.args.default_start)
                          ELSE ResolveStart(kept[i], run.args.pre_chorus,
                                            run.args.default_start)

FrameDone ==
    /\ call.fn \in {"_pick", "_pick_dict", "_pick_tuples", "_filter_by_genre",
                     "_filter_items_by_genre"}
    /\ call.out # Pending

TimelineDone == call.fn = "build_power_hour" /\ call.out # Pending

TimelineStep == Max2(0, call.args.clip_seconds - call.args.crossfade)

\* C27: with crossfade > 0 clip i (0-based) starts at i * max(0, clip_seconds
\* - crossfade) and the duration of the composite is the end of the last
\* clip, (n-1) * step + the last clip's duration.
C27_EndsWithLastClip ==
    TimelineDone =>
        LET n == Len(call.args.durs)
        IN  /\ \A i \in 1..n : call.out.starts[i] = (i - 1) * TimelineStep
            /\ call.out.duration = (n - 1) * TimelineStep + call.args.durs[n]

\* What the code does: the starts are as claimed, the duration is n * step
\* + the last clip's duration, one step more than the end of the last clip.
C27_OneStepLonger ==
    TimelineDone =>
        LET n == Len(call.args.durs)
        IN  /\ \A i \in 1..n : call.out.starts[i] = (i - 1) * TimelineStep
            /\ call.out.duration = call.out.ends[n] + TimelineStep

TrimDone == call.fn = "_load_and_trim" /\ call.out # Pending

WindowInSource ==
    /\ 0 <= call.out.start /\ call.out.start <= call.out.end
    /\ call.out.end <= call.args.duration
    /\ call.out.end - call.out.start <= call.args.clip_seconds

WindowExact ==
    /\ call.out.start = call.args.start_offset
    /\ call.out.end = call.args.start_offset + call.args.clip_seconds

\* C28 as stated: for duration >= 0, start_offset >= 0 and clip_seconds > 0
\* the window has 0 <= start <= end <= duration and end - start <=
\* clip_seconds, and is exactly [start_offset, start_offset + clip_seconds]
\* when start_offset + clip_seconds <= duration.
C28_WindowExactWhenFits ==
    TrimDone =>
        /\ WindowInSource
        /\ call.args.start_offset + call.args.clip_seconds <= call.args.duration
              => WindowExact

\* C28: the same, the window being exact when clip_seconds is at least the
\* margin of 0.01 s and start_offset + clip_seconds <= duration.
C28_WindowExactFromMargin ==
    TrimDone =>
        /\ WindowInSource
        /\ (/\ call.args.clip_seconds >= Margin
            /\ call.args.start_offset + call.args.clip_seconds
                  <= call.args.duration) => WindowExact

\* A clip that fits, taken from a positive offset to the very end of the
\* source.
C28_Witness ==
    /\ TrimDone /\ call.args.start_offset > 0
    /\ call.args.clip_seconds >= Margin
    /\ call.args.start_offset + call.args.clip_seconds = call.args.duration
    /\ WindowExact

IndexInRange == 0 <= ply.currentIndex /\ ply.currentIndex < ply.n

\* With no interval active, one becomes active only in a click on Play,
\* Next or Prev.
IntervalStarts ==
    (ply.intervals = 0 /\ ply'.intervals > 0) =>
        ply'.op \in {"play", "next", "prev"}

\* Next from the last clip goes to the first, Prev from the first to the
\* last, and otherwise one clip on or back.
WrapsAround ==
    /\ ply'.op = "next" =>
           ply'.currentIndex = IF ply.currentIndex = ply.n - 1 THEN 0
                               ELSE ply.currentIndex + 1
    /\ ply'.op = "prev" =>
           ply'.currentIndex = IF ply.currentIndex = 0 THEN ply.n - 1
                               ELSE ply.currentIndex - 1

\* C29: in the player of N >= 1 clips, whatever is clicked and whenever the
\* interval ticks, 0 <= currentIndex < N, Next and Prev wrapping around, at
\* most one polling interval is active, and none is active from a click on
\* Pause until Play, Next or Prev is clicked.
C29_IndexAndInterval ==
    /\ [](ply.phase # "no page" =>
             /\ IndexInRange
             /\ ply.intervals <= 1
             /\ ply.op = "pause" => ply.intervals = 0)
    /\ [][ply.phase # "no page" => IntervalStarts /\ WrapsAround]_vars

\* Pause clicked on the last of several clips while its interval was
\* polling.
C29_Witness ==
    /\ ply.phase = "ready" /\ ply.op = "pause" /\ ply.state = "paused"
    /\ ply.n > 1 /\ ply.currentIndex = ply.n - 1
    /\ ply.intervals = 0

Summarised == call.fn = "validate_csv" /\ call.out.kind = "summary"

Printed(status) ==
    Cardinality({k \in 1..Len(call.out.printed) :
                    call.out.printed[k].status = status})

\* C30: in the summary OK + Warnings + Errors is the number of rows checked,
\* and OK counts only rows for which check_video ran and returned ok: a row
\* reported as missing its id or title is not among them.
C30_OkOnlyIfChecked ==
    Summarised =>
        LET sum == call.out.summary
        IN  /\ sum.ok + sum.warnings + sum.errors = sum.checked
            /\ sum.checked = Len(call.out.rows)
            /\ sum.ok = Printed("ok")

\* What the code does: the three counts sum to the number of rows, Warnings
\* and Errors are the rows found so, and OK is every other row, those
\* reported as missing included.
C30_OkIsTheRest ==
    Summarised =>
        LET sum == call.out.summary
        IN  /\ sum.ok + sum.warnings + sum.errors = sum.checked
            /\ sum.checked = Len(call.out.rows)
            /\ sum.warnings = Printed("warning")
            /\ sum.errors = Printed("error")
            /\ sum.ok = Printed("ok") + Printed("missing")

====
